---------------------------- MODULE Spec2Model ----------------------------
(***************************************************************************)
(* relix -- APT repository manager.  Model of the repository state engine  *)
(* of src/main.cpp: the two file grammars, the block enumeration of the    *)
(* mutators, the undo stack, the backup step and the write-temporary-then-  *)
(* rename writer.                                                          *)
(*                                                                         *)
(* A std::string is a sequence of one-character strings.  A file is a      *)
(* record [exists, lines, term]: `lines' is what std::getline yields and   *)
(* `term' tells whether the last line carries its "\n" terminator, so the  *)
(* record determines the bytes of the file and two records are equal iff   *)
(* the files are byte-identical.                                           *)
(***************************************************************************)
EXTENDS Integers, Sequences, FiniteSets, TLC

(***************************************************************************)
(* SECTION 1 -- string utilities                                           *)
(***************************************************************************)

IsWS(c) == c \in {" ", "\t", "\r", "\n"}

RECURSIVE LTrim(_)
LTrim(s) ==
  IF s = <<>> THEN <<>>
  ELSE IF IsWS(Head(s)) THEN LTrim(Tail(s)) ELSE s

RECURSIVE RTrim(_)
RTrim(s) ==
  IF s = <<>> THEN <<>>
  ELSE IF IsWS(s[Len(s)]) THEN RTrim(SubSeq(s, 1, Len(s) - 1)) ELSE s

\* trimStr: strip leading and trailing " \t\r\n".
trimStr(s) == RTrim(LTrim(s))

\* s.rfind(p, 0) == 0
StartsWith(s, p) == Len(s) >= Len(p) /\ SubSeq(s, 1, Len(p)) = p

\* s.substr(pos), for pos <= s.size()
Substr(s, pos) == SubSeq(s, pos + 1, Len(s))

\* s[i] of the C++ string (0-based); "NUL" is the terminator read at i = size.
CharAt(s, i) == IF i < Len(s) THEN s[i + 1] ELSE "NUL"

\* haystack.find(needle) != npos
Contains(hay, needle) ==
  \E i \in 0..(Len(hay) - Len(needle)) :
     SubSeq(hay, i + 1, i + Len(needle)) = needle

RECURSIVE SplitRec(_, _, _)
SplitRec(s, cur, acc) ==
  IF s = <<>> THEN (IF cur = <<>> THEN acc ELSE Append(acc, cur))
  ELSE IF IsWS(Head(s))
       THEN SplitRec(Tail(s), <<>>, IF cur = <<>> THEN acc ELSE Append(acc, cur))
       ELSE SplitRec(Tail(s), Append(cur, Head(s)), acc)

\* splitWords: the whitespace-separated words of s.
splitWords(s) == SplitRec(s, <<>>, <<>>)

RECURSIVE JoinWords(_)
JoinWords(ws) ==
  IF ws = <<>> THEN <<>>
  ELSE IF Len(ws) = 1 THEN ws[1]
  ELSE ws[1] \o <<" ">> \o JoinWords(Tail(ws))

\* The printable characters in the order of their codes, 32 to 126 (the
\* grave accent, code 96, by its name).
Ascii ==
  <<" ", "!", "\"", "#", "$", "%", "&", "'", "(", ")", "*", "+", ",", "-", ".",
    "/", "0", "1", "2", "3", "4", "5", "6", "7", "8", "9", ":", ";", "<", "=",
    ">", "?", "@", "A", "B", "C", "D", "E", "F", "G", "H", "I", "J", "K", "L",
    "M", "N", "O", "P", "Q", "R", "S", "T", "U", "V", "W", "X", "Y", "Z", "[",
    "\\", "]", "^", "_", "GRAVE", "a", "b", "c", "d", "e", "f", "g", "h", "i", "j",
    "k", "l", "m", "n", "o", "p", "q", "r", "s", "t", "u", "v", "w", "x", "y",
    "z", "{", "|", "}", "~">>

\* static_cast<unsigned char>(c): the code of a character.
Ord ==
  [c \in {Ascii[i] : i \in DOMAIN Ascii} \cup {"\t", "\n", "\r"} |->
     IF c = "\t" THEN 9 ELSE IF c = "\n" THEN 10 ELSE IF c = "\r" THEN 13
     ELSE 31 + (CHOOSE i \in DOMAIN Ascii : Ascii[i] = c)]

\* tolower of one character: 'A'..'Z' go to 'a'..'z'.
tolower(c) == IF Ord[c] >= 65 /\ Ord[c] <= 90 THEN Ascii[Ord[c] + 1] ELSE c

\* toLower: every character through tolower.
toLower(s) == [i \in 1..Len(s) |-> tolower(s[i])]

\* containsCI: toLower(haystack).find(toLower(needle)) != npos.
containsCI(haystack, needle) == Contains(toLower(haystack), toLower(needle))

\* std::string operator<: lexicographic, by character code; a proper prefix
\* is less.
RECURSIVE StrLess(_, _)
StrLess(a, b) ==
  IF b = <<>> THEN FALSE
  ELSE IF a = <<>> THEN TRUE
  ELSE IF Head(a) # Head(b) THEN Ord[Head(a)] < Ord[Head(b)]
  ELSE StrLess(Tail(a), Tail(b))

(***************************************************************************)
(* String literals of the program.                                         *)
(***************************************************************************)
sDeb        == <<"d", "e", "b">>
sHashSp     == <<"#", " ">>
sTypes      == <<"T", "y", "p", "e", "s", ":">>
sURIs       == <<"U", "R", "I", "s", ":">>
sSuites     == <<"S", "u", "i", "t", "e", "s", ":">>
sComponents == <<"C", "o", "m", "p", "o", "n", "e", "n", "t", "s", ":">>
sEnabled    == <<"E", "n", "a", "b", "l", "e", "d", ":">>
sYes        == <<"y", "e", "s">>
sYesCap     == <<"Y", "e", "s">>
sYesUp      == <<"Y", "E", "S">>
sEnabledNo  == sEnabled \o <<" ", "n", "o">>
sEnabledYes == sEnabled \o <<" ">> \o sYes

(***************************************************************************)
(* Files.                                                                  *)
(***************************************************************************)
mainList == "/etc/apt/sources.list"
srcFile  == "/etc/apt/sources.list.d/b.sources"

\* The directory entries of /etc/apt/sources.list.d/, sorted.
dirEntries == <<srcFile>>

Files == {mainList} \cup {dirEntries[i] : i \in 1..Len(dirEntries)}

\* path.extension()
Extension(path) == IF path = srcFile THEN ".sources" ELSE ".list"

NoFile == [exists |-> FALSE, lines |-> <<>>, term |-> TRUE]

\* A file holding `ls', every line terminated.
FileOf(ls) == [exists |-> TRUE, lines |-> ls, term |-> TRUE]

\* A file holding `ls' whose last line lacks its terminator.
FileNoNL(ls) == [exists |-> TRUE, lines |-> ls, term |-> FALSE]

\* readAllLines: std::getline until it fails; a missing file reads as empty.
readAllLines(f) == IF f.exists THEN f.lines ELSE <<>>

\* ofstream(path, ios::app) << line << "\n": the bytes are appended, so an
\* unterminated last line is continued by `line'.
AppendLine(f, line) ==
  IF ~f.exists \/ f.lines = <<>> THEN FileOf(<<line>>)
  ELSE IF f.term THEN FileOf(Append(f.lines, line))
  ELSE FileOf(SubSeq(f.lines, 1, Len(f.lines) - 1)
              \o <<f.lines[Len(f.lines)] \o line>>)

(***************************************************************************)
(* SECTION 6 -- parse files                                                *)
(***************************************************************************)

\* parseListFile, lines 322-326: does the line yield an entry?
Qualifies(line) ==
  LET t == trimStr(line) IN
    /\ t # <<>>
    /\ \/ StartsWith(t, sDeb)
       \/ (t[1] = "#" /\ StartsWith(trimStr(Substr(t, 1)), sDeb))

\* A parser that tests the first character of the raw line for the marker.
ListEntryRaw(path, line) ==
  LET t       == trimStr(line)
      enabled == line[1] # "#"
      words   == splitWords(IF t[1] # "#" THEN t
                            ELSE trimStr(Substr(t, IF CharAt(t, 1) = " " THEN 2 ELSE 1)))
  IN [file       |-> path,
      display    |-> line,
      enabled    |-> enabled,
      isDeb822   |-> FALSE,
      blockIndex |-> -1,
      types      |-> sDeb,
      uri        |-> IF Len(words) > 1 THEN words[2] ELSE <<>>,
      suite      |-> IF Len(words) > 2 THEN words[3] ELSE <<>>,
      components |-> IF Len(words) > 3
                     THEN JoinWords(SubSeq(words, 4, Len(words))) ELSE <<>>]

\* parseListFile, lines 328-347: the entry of a qualifying line.
ListEntry(path, line) ==
  LET t         == trimStr(line)
      enabled   == t[1] # "#"
      parseable == IF enabled THEN t
                   ELSE trimStr(Substr(t, IF CharAt(t, 1) = " " THEN 2 ELSE 1))
      words     == splitWords(parseable)
  IN [file       |-> path,
      display    |-> line,
      enabled    |-> enabled,
      isDeb822   |-> FALSE,
      blockIndex |-> -1,
      types      |-> sDeb,
      uri        |-> IF Len(words) > 1 THEN words[2] ELSE <<>>,
      suite      |-> IF Len(words) > 2 THEN words[3] ELSE <<>>,
      components |-> IF Len(words) > 3
                     THEN JoinWords(SubSeq(words, 4, Len(words))) ELSE <<>>]

RECURSIVE ParseListLines(_, _)
ParseListLines(path, ls) ==
  IF ls = <<>> THEN <<>>
  ELSE (IF Qualifies(Head(ls)) THEN <<ListEntry(path, Head(ls))>> ELSE <<>>)
       \o ParseListLines(path, Tail(ls))

\* parseListFile: the entries it appends to g_repos.
parseListFile(path, f) ==
  IF ~f.exists THEN <<>> ELSE ParseListLines(path, f.lines)

\* processBlock, lines 360-375: the fields after the scan of the block's lines.
BlockInit ==
  [types |-> <<>>, uris |-> <<>>, suites |-> <<>>,
   comp_raw |-> <<>>, comps |-> <<>>, enabled |-> TRUE]

BlockField(acc, raw) ==
  LET l == trimStr(raw) IN
    IF l = <<>> \/ l[1] = "#" THEN acc
    ELSE IF StartsWith(l, sTypes)
      THEN [acc EXCEPT !.types = trimStr(Substr(l, 6))]
    ELSE IF StartsWith(l, sURIs)
      THEN [acc EXCEPT !.uris = splitWords(trimStr(Substr(l, 5)))]
    ELSE IF StartsWith(l, sSuites)
      THEN [acc EXCEPT !.suites = splitWords(trimStr(Substr(l, 7)))]
    ELSE IF StartsWith(l, sComponents)
      THEN [acc EXCEPT !.comp_raw = trimStr(Substr(l, 11)),
                       !.comps    = splitWords(trimStr(Substr(l, 11)))]
    ELSE IF StartsWith(l, sEnabled)
      THEN LET v == trimStr(Substr(l, 8)) IN
           [acc EXCEPT !.enabled = (v = sYes \/ v = sYesCap \/ v = sYesUp)]
    ELSE acc

RECURSIVE BlockFields(_, _)
BlockFields(acc, blines) ==
  IF blines = <<>> THEN acc
  ELSE BlockFields(BlockField(acc, Head(blines)), Tail(blines))

\* A processBlock without the test of the Types value.
BlockAcceptedAnyTypes(blines) ==
  LET b == BlockFields(BlockInit, blines) IN
    /\ b.uris # <<>>
    /\ b.suites # <<>>

\* processBlock, lines 377-378: the block yields entries.
BlockAccepted(blines) ==
  LET b == BlockFields(BlockInit, blines) IN
    /\ Contains(b.types, sDeb)
    /\ b.uris # <<>>
    /\ b.suites # <<>>

\* processBlock, lines 380-400: one entry per (uri, suite), uris outermost.
BlockEntries(path, blines, blockIndex) ==
  LET b  == BlockFields(BlockInit, blines)
      nu == Len(b.uris)
      ns == Len(b.suites)
      E(k) ==
        LET u == b.uris[((k - 1) \div ns) + 1]
            s == b.suites[((k - 1) % ns) + 1]
        IN [file       |-> path,
            display    |-> b.types \o <<" ">> \o u \o <<" ">> \o s
                           \o (IF b.comps # <<>>
                               THEN <<" ">> \o JoinWords(b.comps) ELSE <<>>),
            enabled    |-> b.enabled,
            isDeb822   |-> TRUE,
            blockIndex |-> blockIndex,
            types      |-> b.types,
            uri        |-> u,
            suite      |-> s,
            components |-> b.comp_raw]
  IN IF BlockAccepted(blines) THEN [k \in 1..(nu * ns) |-> E(k)] ELSE <<>>

\* processBlock, line 401 (and the early returns of 377-378): blockIndex++
\* is reached only by a block that yields entries.
NextBlockIndex(blines, blockIndex) ==
  IF BlockAccepted(blines) THEN blockIndex + 1 ELSE blockIndex

\* parseSourcesFile, lines 404-411: the getline loop.
RECURSIVE ParseSourcesLines(_, _, _, _)
ParseSourcesLines(path, ls, block, blockIndex) ==
  IF ls = <<>>
  THEN (IF block # <<>> THEN BlockEntries(path, block, blockIndex) ELSE <<>>)
  ELSE IF trimStr(Head(ls)) = <<>>
       THEN IF block # <<>>
            THEN BlockEntries(path, block, blockIndex)
                 \o ParseSourcesLines(path, Tail(ls), <<>>,
                                      NextBlockIndex(block, blockIndex))
            ELSE ParseSourcesLines(path, Tail(ls), <<>>, blockIndex)
       ELSE ParseSourcesLines(path, Tail(ls), Append(block, Head(ls)), blockIndex)

parseSourcesFile(path, f) ==
  IF ~f.exists THEN <<>> ELSE ParseSourcesLines(path, f.lines, <<>>, 0)

(***************************************************************************)
(* SECTION 7 -- load                                                       *)
(***************************************************************************)

RECURSIVE LoadDir(_, _, _)
LoadDir(d, entries, deb822) ==
  IF entries = <<>> THEN <<>>
  ELSE LET p == Head(entries) IN
       (IF Extension(p) = ".list" THEN parseListFile(p, d[p])
        ELSE IF deb822 /\ Extension(p) = ".sources" THEN parseSourcesFile(p, d[p])
        ELSE <<>>)
       \o LoadDir(d, Tail(entries), deb822)

\* loadRepos: g_repos after the reload from the files `d'.
loadRepos(d, deb822) ==
  (IF d[mainList].exists THEN parseListFile(mainList, d[mainList]) ELSE <<>>)
  \o LoadDir(d, dirEntries, deb822)

\* The characters of a path.
PathChars(path) ==
  IF path = mainList
  THEN <<"/", "e", "t", "c", "/", "a", "p", "t", "/", "s", "o", "u", "r", "c",
         "e", "s", ".", "l", "i", "s", "t">>
  ELSE <<"/", "e", "t", "c", "/", "a", "p", "t", "/", "s", "o", "u", "r", "c",
         "e", "s", ".", "l", "i", "s", "t", ".", "d", "/", "b", ".", "s", "o",
         "u", "r", "c", "e", "s">>

\* rebuildFiltered, lines 422-425: the indices (1-based here) of the entries
\* that pass the filter, in the order of g_repos.
RECURSIVE FilterFrom(_, _, _)
FilterFrom(repos, filterStr, i) ==
  IF i > Len(repos) THEN <<>>
  ELSE (IF filterStr = <<>> \/ containsCI(repos[i].display, filterStr)
        THEN <<i>> ELSE <<>>)
       \o FilterFrom(repos, filterStr, i + 1)

\* rebuildFiltered, lines 427-440: the comparator of the sort mode.
cmp(repos, mode, a, b) ==
  LET ra == repos[a]
      rb == repos[b]
  IN IF mode = 1
     THEN IF ra.enabled # rb.enabled THEN ra.enabled /\ ~rb.enabled
          ELSE StrLess(ra.display, rb.display)
     ELSE IF mode = 2
     THEN StrLess(toLower(ra.display), toLower(rb.display))
     ELSE IF ra.file # rb.file
          THEN StrLess(PathChars(ra.file), PathChars(rb.file))
          ELSE StrLess(ra.display, rb.display)

\* A sort that puts x in front of the elements it is equivalent to.
InsertUnstable(repos, mode, sorted, x) ==
  LET k == CHOOSE n \in 0..Len(sorted) :
             /\ \A i \in 1..n : cmp(repos, mode, sorted[i], x)
             /\ n = Len(sorted) \/ ~cmp(repos, mode, sorted[n + 1], x)
  IN SubSeq(sorted, 1, k) \o <<x>> \o SubSeq(sorted, k + 1, Len(sorted))

\* std::stable_sort: x goes in front of the first element it is less than,
\* hence behind every element it is equivalent to.
RECURSIVE InsertSorted(_, _, _, _)
InsertSorted(repos, mode, sorted, x) ==
  IF sorted = <<>> THEN <<x>>
  ELSE IF cmp(repos, mode, x, Head(sorted)) THEN <<x>> \o sorted
  ELSE <<Head(sorted)>> \o InsertSorted(repos, mode, Tail(sorted), x)

RECURSIVE stable_sort(_, _, _, _)
stable_sort(repos, mode, xs, sorted) ==
  IF xs = <<>> THEN sorted
  ELSE stable_sort(repos, mode, Tail(xs), InsertSorted(repos, mode, sorted, Head(xs)))

\* rebuildFiltered: g_filtered for the entries, the filter and the sort mode.
rebuildFiltered(repos, filterStr, mode) ==
  stable_sort(repos, mode, FilterFrom(repos, filterStr, 1), <<>>)

(***************************************************************************)
(* SECTIONS 10, 11 -- toggle and delete: the new line sequence             *)
(***************************************************************************)

\* A search that keeps the last line equal to `display'.
LastMatch(ls, display) ==
  IF \E k \in 1..Len(ls) : ls[k] = display
  THEN CHOOSE k \in 1..Len(ls) :
         ls[k] = display /\ \A j \in (k + 1)..Len(ls) : ls[j] # display
  ELSE 0

\* Index (1-based) of the first line equal to `display'; 0 when there is none.
RECURSIVE FirstMatchFrom(_, _, _)
FirstMatchFrom(ls, display, i) ==
  IF i > Len(ls) THEN 0
  ELSE IF ls[i] = display THEN i
  ELSE FirstMatchFrom(ls, display, i + 1)

FirstMatch(ls, display) == FirstMatchFrom(ls, display, 1)

\* toggleList, line 551: the replacement of the matched line.
ToggledLine(l, enabled) ==
  IF enabled THEN sHashSp \o l
  ELSE trimStr(Substr(l, IF CharAt(l, 1) = " " THEN 2 ELSE 1))

\* toggleList, lines 546-553: the rewritten lines.
toggleListLines(ls, repo) ==
  LET i == FirstMatch(ls, repo.display) IN
    [k \in 1..Len(ls) |->
       IF k = i THEN ToggledLine(ls[k], repo.enabled) ELSE ls[k]]

\* toggleDeb822 lines 568-574, deleteRepoClean lines 618-624: the ranges
\* [s, e] (1-based here) of the maximal runs of non-blank lines.
RECURSIVE BlockScan(_, _, _, _, _)
BlockScan(ls, i, bs, inB, acc) ==
  IF i > Len(ls)
  THEN (IF inB THEN Append(acc, [s |-> bs, e |-> Len(ls)]) ELSE acc)
  ELSE LET blank == trimStr(ls[i]) = <<>> IN
       IF ~blank /\ ~inB THEN BlockScan(ls, i + 1, i, TRUE, acc)
       ELSE IF blank /\ inB
            THEN BlockScan(ls, i + 1, bs, FALSE, Append(acc, [s |-> bs, e |-> i - 1]))
            ELSE BlockScan(ls, i + 1, bs, inB, acc)

BlockRanges(ls) == BlockScan(ls, 1, 0, FALSE, <<>>)

\* toggleDeb822, lines 577-580: the first line of the block whose trimmed
\* text starts with "Enabled:"; 0 when there is none.
RECURSIVE EnabledLineFrom(_, _, _)
EnabledLineFrom(ls, i, e) ==
  IF i > e THEN 0
  ELSE IF StartsWith(trimStr(ls[i]), sEnabled) THEN i
  ELSE EnabledLineFrom(ls, i + 1, e)

EnabledLine(ls, b) == EnabledLineFrom(ls, b.s, b.e)

\* A range test that also refuses the last block.
BlockInRangeStrict(ls, repo) ==
  repo.blockIndex >= 0 /\ repo.blockIndex + 1 < Len(BlockRanges(ls))

\* toggleDeb822, line 582, and deleteRepoClean, line 626.
BlockInRange(ls, repo) ==
  repo.blockIndex >= 0 /\ repo.blockIndex < Len(BlockRanges(ls))

\* toggleDeb822, lines 585-592: the rewritten lines.
toggleDeb822Lines(ls, repo) ==
  LET b      == BlockRanges(ls)[repo.blockIndex + 1]
      newVal == IF repo.enabled THEN sEnabledNo ELSE sEnabledYes
      el     == EnabledLine(ls, b)
  IN IF el > 0
     THEN [k \in 1..Len(ls) |-> IF k = el THEN newVal ELSE ls[k]]
     ELSE SubSeq(ls, 1, b.s) \o <<newVal>> \o SubSeq(ls, b.s + 1, Len(ls))

\* deleteRepoClean, lines 608-613: the lines without the first match.
deleteListLines(ls, repo) ==
  LET i == FirstMatch(ls, repo.display) IN
    SubSeq(ls, 1, i - 1) \o SubSeq(ls, i + 1, Len(ls))

\* deleteRepoClean, lines 629-637: the lines without the block and without
\* one blank line after it.
deleteDeb822Lines(ls, repo) ==
  LET b    == BlockRanges(ls)[repo.blockIndex + 1]
      bEnd == IF b.e + 1 <= Len(ls) /\ trimStr(ls[b.e + 1]) = <<>>
              THEN b.e + 1 ELSE b.e
  IN SubSeq(ls, 1, b.s - 1) \o SubSeq(ls, bEnd + 1, Len(ls))

(***************************************************************************)
(* SECTION 5, 9 -- globals, undo stack                                     *)
(***************************************************************************)

VARIABLES
  disk,         \* path -> file: the managed files
  tmp,          \* path -> file: the sibling path + ".relix.tmp"
  backups,      \* the copies in g_cfg.backupDir, as [src, data]
  g_repos,      \* master list
  g_undoStack,  \* sequence of UndoEntry [file, lines], top last
  g_readOnly,   \* geteuid() != 0
  useDeb822,    \* loadRepos: the distribution reads *.sources
  pc,           \* position of the foreground actor inside its handler
  call,         \* locals of the running handler
  status,       \* setStatus: the user-visible status line
  hist,         \* log of the handler runs: what each found and what it left
  fuel,         \* handler runs still admitted
  faults,       \* I/O failures still admitted
  g_asyncMeta,  \* the probe mailbox: mtx, meta, ready, running
  workers,      \* the probe worker threads: position, local result
  ui,           \* the foreground's position in its frame, g_curMeta, g_metaShown
  g_filtered,   \* indices into g_repos after filter/sort (1-based here)
  g_filterStr,  \* the search query
  g_searchMode, \* keys go to handleSearchInput
  sortMode,     \* g_cfg.sortMode: 0 = file, 1 = status, 2 = alpha
  ext           \* the file at the path typed into the Export / Import dialog

vars == <<disk, tmp, backups, g_repos, g_undoStack, g_readOnly, useDeb822,
          pc, call, status, hist, fuel, faults, g_asyncMeta, workers, ui,
          g_filtered, g_filterStr, g_searchMode, sortMode, ext>>

\* The state of the metadata probe, which no file handler touches.
probeVars == <<g_asyncMeta, workers, ui>>

\* The state of the filter and sort pipeline.
viewVars == <<g_filtered, g_filterStr, g_searchMode, sortMode>>

\* The state of the mutation engine, which no probe step touches.
fileVars == <<disk, tmp, backups, g_repos, g_undoStack, g_readOnly, useDeb822,
              pc, call, status, hist, fuel, faults, viewVars, ext>>

\* What a step of a file handler that does not reload leaves alone.
restVars == <<probeVars, viewVars, ext>>

\* loadRepos, line 466: rebuildFiltered over the entries just loaded.
Reloaded(repos) ==
  /\ g_filtered' = rebuildFiltered(repos, g_filterStr, sortMode)
  /\ UNCHANGED <<g_filterStr, g_searchMode, sortMode>>

k_maxUndo == 20

\* Handler runs admitted in one behaviour of Spec.
MaxOps == 2

\* I/O failures (backup, open, write, rename) admitted in one behaviour.
MaxFaults == 1

\* A pushUndo that never evicts.
pushUndoNoEvict(stack, path, d) ==
  Append(stack, [file |-> path, lines |-> readAllLines(d[path])])

\* pushUndo, lines 527-531.
pushUndo(stack, path, d) ==
  LET lines == readAllLines(d[path])
      kept  == IF Len(stack) >= k_maxUndo THEN Tail(stack) ELSE stack
  IN Append(kept, [file |-> path, lines |-> lines])

NoRepo == [file |-> "", display |-> <<>>, enabled |-> FALSE, isDeb822 |-> FALSE,
           blockIndex |-> -1, types |-> <<>>, uri |-> <<>>, suite |-> <<>>,
           components |-> <<>>]

NoCall == [op |-> "none", file |-> "", lines |-> <<>>, repo |-> NoRepo,
           errMsg |-> ""]

\* The log keeps the last two handler runs.
Kept(h) == IF h = <<>> THEN <<>> ELSE <<h[Len(h)]>>

\* A handler starts: one more record in the log, holding what it found.
\* `ri' is the index of the selected entry in g_repos (0: none), `lines'
\* the line sequence the handler is about to write; `backup' tells whether
\* backupFile has run and how it ended ("none", "made", "failed").
Begun(op, repo, ri, file, lines) ==
  Append(Kept(hist),
         [op |-> op, repo |-> repo, ri |-> ri, file |-> file, lines |-> lines,
          done |-> FALSE, ok |-> FALSE, errMsg |-> "",
          pushed |-> FALSE, backup |-> "none", renamed |-> FALSE,
          pre |-> disk, post |-> disk,
          tmpPre |-> tmp, tmpPost |-> tmp,
          stackPre |-> g_undoStack, stackPost |-> g_undoStack,
          bkPre |-> backups, bkPost |-> backups])

\* A handler ends: its record holds what it left.
Ended(h, ok, errMsg, renamed, d2, t2, st2) ==
  [h EXCEPT ![Len(h)] =
     [@ EXCEPT !.done = TRUE, !.ok = ok, !.errMsg = errMsg, !.renamed = renamed,
               !.post = d2, !.tmpPost = t2, !.stackPost = st2,
               !.bkPost = backups]]

\* A handler that returns without running a later step.
Rejected(op, repo, ri, file, text, errMsg, isErr, reload) ==
  /\ hist' = Ended(Begun(op, repo, ri, file, <<>>), FALSE, errMsg, FALSE,
                   disk, tmp, g_undoStack)
  /\ status' = [text |-> text, errMsg |-> errMsg, isErr |-> isErr]
  /\ g_repos' = IF reload THEN loadRepos(disk, useDeb822) ELSE g_repos
  /\ IF reload THEN Reloaded(g_repos') ELSE UNCHANGED viewVars
  /\ fuel' = fuel - 1
  /\ UNCHANGED <<disk, tmp, backups, g_undoStack, g_readOnly, useDeb822, pc, call,
                 faults>>
  /\ UNCHANGED <<probeVars, ext>>

\* A handler that goes on to its write steps, starting at `next'.
Started(op, repo, ri, file, lines, next) ==
  /\ hist' = Begun(op, repo, ri, file, lines)
  /\ call' = [op |-> op, file |-> file, lines |-> lines, repo |-> repo,
              errMsg |-> ""]
  /\ pc' = next
  /\ fuel' = fuel - 1
  /\ UNCHANGED <<disk, tmp, backups, g_repos, g_undoStack, g_readOnly,
                 useDeb822, status, faults>>
  /\ UNCHANGED restVars

\* The text the handler of `op' shows for the result `ok'.
StatusText(op, ok) ==
  IF op = "toggle" THEN (IF ok THEN "Repository toggled." ELSE "Toggle FAILED: ")
  ELSE IF op = "delete" THEN (IF ok THEN "Deleted." ELSE "Delete FAILED: ")
  ELSE IF ok THEN "Undo applied." ELSE ""

\* An applyUndo that pops the snapshot before it writes.
ReturnedPopFirst(ok, errMsg, renamed, d2, t2) ==
  LET st2 == IF call.op = "undo"
             THEN SubSeq(g_undoStack, 1, Len(g_undoStack) - 1)
             ELSE g_undoStack
  IN /\ disk' = d2
     /\ tmp' = t2
     /\ g_undoStack' = st2
     /\ g_repos' = loadRepos(d2, useDeb822)
     /\ Reloaded(g_repos')
     /\ status' = [text   |-> StatusText(call.op, ok),
                   errMsg |-> IF ok THEN "" ELSE errMsg,
                   isErr  |-> ~ok]
     /\ hist' = Ended(hist, ok, errMsg, renamed, d2, t2, st2)
     /\ pc' = "idle"
     /\ call' = NoCall
     /\ UNCHANGED <<backups, g_readOnly, useDeb822, fuel>>
     /\ UNCHANGED <<probeVars, ext>>

\* atomicWriteLines has returned `ok' to toggleList / toggleDeb822 /
\* deleteRepoClean / applyUndo: the rest of the handler in main (lines
\* 1418-1421, 1460-1463, 537 and 1559-1562).
Returned(ok, errMsg, renamed, d2, t2) ==
  LET st2 == IF call.op = "undo" /\ ok
             THEN SubSeq(g_undoStack, 1, Len(g_undoStack) - 1)
             ELSE g_undoStack
  IN /\ disk' = d2
     /\ tmp' = t2
     /\ g_undoStack' = st2
     /\ g_repos' = loadRepos(d2, useDeb822)
     /\ Reloaded(g_repos')
     /\ status' = [text   |-> StatusText(call.op, ok),
                   errMsg |-> IF ok THEN "" ELSE errMsg,
                   isErr  |-> ~ok]
     /\ hist' = Ended(hist, ok, errMsg, renamed, d2, t2, st2)
     /\ pc' = "idle"
     /\ call' = NoCall
     /\ UNCHANGED <<backups, g_readOnly, useDeb822, fuel>>
     /\ UNCHANGED <<probeVars, ext>>

(***************************************************************************)
(* Inputs of the model.                                                    *)
(***************************************************************************)
lnA      == sDeb \o <<" ", "u", " ", "s">>            \* deb u s
lnB      == sDeb \o <<" ", "v", " ", "t">>            \* deb v t
lnHashA  == <<"#">> \o lnA                             \* #deb u s
lnIndA   == <<" ">> \o lnA                             \*  deb u s
lnNote   == <<"#", " ", "c">>                          \* # c
kTypes   == sTypes \o <<" ">> \o sDeb                  \* Types: deb
kURIsU   == sURIs \o <<" ", "u">>                      \* URIs: u
kURIsV   == sURIs \o <<" ", "v">>                      \* URIs: v
kSuitesS == sSuites \o <<" ", "s">>                    \* Suites: s
kSuitesST == sSuites \o <<" ", "s", " ", "t">>         \* Suites: s t
kEnFalse == sEnabled \o <<" ", "o", "f", "f">>         \* Enabled: off

BaseMain == FileOf(<<lnA>>)
BaseSrc  == FileOf(<<kTypes, kURIsU, kSuitesS>>)

\* Contents of /etc/apt/sources.list.
MainSamples ==
  { NoFile,
    BaseMain,
    FileNoNL(<<lnA>>),
    FileOf(<<lnHashA, lnB>>),
    FileOf(<<lnA, lnNote, lnA>>),
    FileOf(<<lnIndA>>) }

\* Contents of the *.sources file.
SrcSamples ==
  { NoFile,
    BaseSrc,
    FileOf(<<lnNote, <<>>, kTypes, kURIsU, kSuitesS>>),
    FileOf(<<kTypes, kURIsU, kSuitesST, kEnFalse, <<>>, kTypes, kURIsV, kSuitesS>>),
    FileNoNL(<<lnNote, <<>>, kTypes, kURIsV, kSuitesS, sEnabledNo>>) }

\* What the user types into the "Add Repository" dialog.
AddInputs == { <<>>, lnB, <<" ", "x">> }

\* The target file typed into the second dialog.
AddTargets == Files

(***************************************************************************)
(* SECTION 13 -- the metadata probe: RepoMeta, AsyncMeta                   *)
(***************************************************************************)

\* Probe workers started in one behaviour.
MaxProbes == 2

\* Keys ('m' and cursor keys) pressed in one behaviour.
MaxKeys == 3

Workers == 1..MaxProbes

\* RepoMeta, lines 697-707: reachable is false by default.  The field id
\* tells which probe built the value (0: none).
NoMeta == [id |-> 0, reachable |-> FALSE]

\* What the network does to one checkReachable call: getaddrinfo answers,
\* fails, or does not answer within timeout_ms; the peer accepts the
\* connection, refuses it, the attempt errors out, or nothing comes back.
NetOutcomes ==
  { [dns |-> "ok", conn |-> c] : c \in {"accepted", "refused", "error", "silent"} }
  \cup { [dns |-> d, conn |-> "none"] : d \in {"fail", "timeout"} }

NoNet == [dns |-> "none", conn |-> "none"]

\* select(sock + 1, nullptr, &wfds, nullptr, &tv), line 798: the number of
\* descriptors ready for writing when it returns.  A socket whose connect
\* has ended, with or without an error, is ready for writing; only an
\* attempt still pending at the timeout leaves the set empty.
SelectResult(conn) == IF conn = "silent" THEN 0 ELSE 1

\* checkReachable, lines 755-802.
checkReachable(net) ==
  IF net.dns = "timeout" THEN FALSE          \* line 785
  ELSE IF net.dns # "ok" THEN FALSE          \* line 787
  ELSE SelectResult(net.conn) = 1            \* line 800

\* The owner of g_asyncMeta.mtx: 0 while it is free, the number of the
\* worker that holds it, or Foreground.
Foreground == -1

\* g_asyncMeta, lines 804-811, after construction; g_selected (line 417) is
\* ui.sel, a position in g_filtered counted from 1; workers[w].r is the
\* index in g_repos of the entry the worker holds a copy of (0: none).
\* The other fields of a worker are its call of checkReachable: frame tells
\* whether the locals of the call exist ("none", "live", "ended"), mtx and
\* done are the locals of line 776, gai the result of getaddrinfo, res the
\* position of the resolver thread, late whether the resolver has used the
\* locals after the call returned.
ProbeInit ==
  /\ g_asyncMeta = [mtx |-> 0, meta |-> NoMeta, ready |-> FALSE, running |-> FALSE]
  /\ workers = [w \in Workers |-> [pc |-> "none", m |-> NoMeta, net |-> NoNet,
                                    writes |-> 0, r |-> 0, frame |-> "none",
                                    res |-> "none", gai |-> "none",
                                    mtx |-> FALSE, done |-> FALSE,
                                    late |-> FALSE]]
  /\ ui = [pc |-> "draw", curMeta |-> NoMeta, metaShown |-> FALSE,
           keys |-> 0, asked |-> 0, dropped |-> 0, copied |-> <<>>,
           sel |-> 1]

(***************************************************************************)
(* Init: the state after main's loadRepos (line 1346).                     *)
(***************************************************************************)
\* g_filterStr, g_searchMode (lines 418, 839) and rebuildFiltered as run by
\* the first loadRepos; the sort mode comes from the configuration file.
ViewInit(sorts) ==
  /\ g_filterStr = <<>>
  /\ g_searchMode = FALSE
  /\ sortMode \in sorts
  /\ g_filtered = rebuildFiltered(g_repos, g_filterStr, sortMode)

InitWith(ops, fails) ==
  /\ \E m \in MainSamples, p \in SrcSamples :
       /\ m = NoFile \/ p = NoFile \/ (m = BaseMain /\ p = BaseSrc)
       /\ disk = [f \in Files |-> IF f = mainList THEN m ELSE p]
  /\ tmp = [f \in Files |-> NoFile]
  /\ backups = {}
  /\ g_readOnly \in BOOLEAN
  /\ useDeb822 \in BOOLEAN
  /\ (g_readOnly \/ ~useDeb822) =>
        (disk[mainList] = BaseMain /\ disk[srcFile] = BaseSrc)
  /\ g_repos = loadRepos(disk, useDeb822)
  /\ g_undoStack = <<>>
  /\ pc = "idle"
  /\ call = NoCall
  /\ status = [text |-> "Ready.", errMsg |-> "", isErr |-> g_readOnly]
  /\ hist = <<>>
  /\ fuel = ops
  /\ faults = fails
  /\ ProbeInit
  /\ ViewInit({0})
  /\ ext = NoFile

Init == InitWith(MaxOps, MaxFaults)

(***************************************************************************)
(* SECTION 21 -- the key handlers of main, up to their first write step    *)
(***************************************************************************)

\* The foreground waits for a key outside search mode (line 1381) and a
\* handler run is still admitted.
Idle == pc = "idle" /\ fuel > 0 /\ ~g_searchMode

\* currentRepoIndex, lines 860-863: the entries the cursor can be on.
Selectable == {g_filtered[i] : i \in 1..Len(g_filtered)}

\* F2, F3, F4, Ctrl+Z without root: lines 1407, 1427, 1452, 1556.
ReadOnlyKey ==
  /\ Idle
  /\ g_readOnly
  /\ \E op \in {"toggle", "add", "delete", "undo"} :
       Rejected(op, NoRepo, 0, "", "Read-only mode.", "", TRUE, FALSE)

\* A toggleList that snapshots and rewrites the file whether or not the
\* line was found.
ToggleListKeyNoSearch ==
  /\ Idle
  /\ ~g_readOnly
  /\ \E ri \in Selectable :
       LET repo == g_repos[ri]
           ls   == readAllLines(disk[repo.file])
       IN /\ ~repo.isDeb822
          /\ Started("toggle", repo, ri, repo.file,
                     IF FirstMatch(ls, repo.display) = 0 THEN ls
                     ELSE toggleListLines(ls, repo), "push")

\* A toggleList that goes to its backup without the snapshot.
ToggleListKeyNoPush ==
  /\ Idle
  /\ ~g_readOnly
  /\ \E ri \in Selectable :
       LET repo == g_repos[ri]
           ls   == readAllLines(disk[repo.file])
       IN /\ ~repo.isDeb822
          /\ IF FirstMatch(ls, repo.display) = 0
             THEN Rejected("toggle", repo, ri, repo.file, "Toggle FAILED: ",
                           "Line not found in file (changed externally?)", TRUE, TRUE)
             ELSE Started("toggle", repo, ri, repo.file, toggleListLines(ls, repo),
                          "backup")

\* F2 on a one-line entry: lines 1406-1417 and toggleList to line 554.
ToggleListKey ==
  /\ Idle
  /\ ~g_readOnly
  /\ \E ri \in Selectable :
       LET repo == g_repos[ri]
           ls   == readAllLines(disk[repo.file])
       IN /\ ~repo.isDeb822
          /\ IF FirstMatch(ls, repo.display) = 0
             THEN Rejected("toggle", repo, ri, repo.file, "Toggle FAILED: ",
                           "Line not found in file (changed externally?)", TRUE, TRUE)
             ELSE Started("toggle", repo, ri, repo.file, toggleListLines(ls, repo),
                          "push")

\* F2 on a paragraph entry: lines 1406-1417 and toggleDeb822 to line 592.
ToggleDeb822Key ==
  /\ Idle
  /\ ~g_readOnly
  /\ \E ri \in Selectable :
       LET repo == g_repos[ri]
           ls   == readAllLines(disk[repo.file])
       IN /\ repo.isDeb822
          /\ IF ~BlockInRange(ls, repo)
             THEN Rejected("toggle", repo, ri, repo.file, "Toggle FAILED: ",
                           "Block index out of range (file changed externally?)", TRUE, TRUE)
             ELSE Started("toggle", repo, ri, repo.file,
                          toggleDeb822Lines(ls, repo), "push")

\* F4, confirmed: lines 1451-1459 and deleteRepoClean to line 638.
DeleteKey ==
  /\ Idle
  /\ ~g_readOnly
  /\ \E ri \in Selectable :
       LET repo == g_repos[ri]
           ls   == readAllLines(disk[repo.file])
       IN IF ~repo.isDeb822
          THEN IF FirstMatch(ls, repo.display) = 0
               THEN Rejected("delete", repo, ri, repo.file, "Delete FAILED: ",
                             "Line not found in file", TRUE, TRUE)
               ELSE Started("delete", repo, ri, repo.file,
                            deleteListLines(ls, repo), "push")
          ELSE IF ~BlockInRange(ls, repo)
               THEN Rejected("delete", repo, ri, repo.file, "Delete FAILED: ",
                             "Block index out of range", TRUE, TRUE)
               ELSE Started("delete", repo, ri, repo.file,
                            deleteDeb822Lines(ls, repo), "push")

\* inputDialog, line 1184: the typed text, trimmed.
inputDialog(typed) == trimStr(typed)

\* F3 leaves before pushUndo (lines 1430-1433); the log keeps the typed text.
AddRefused(typed, text, isErr) ==
  /\ hist' = Ended(Begun("add", NoRepo, 0, "", <<typed>>), FALSE, "", FALSE,
                   disk, tmp, g_undoStack)
  /\ status' = [text |-> text, errMsg |-> "", isErr |-> isErr]
  /\ fuel' = fuel - 1
  /\ UNCHANGED <<disk, tmp, backups, g_repos, g_undoStack, g_readOnly,
                 useDeb822, pc, call, faults>>
  /\ UNCHANGED restVars

\* An F3 handler without the test for the "deb" prefix.
AddKeyNoCheck ==
  /\ Idle
  /\ ~g_readOnly
  /\ \E typed \in AddInputs :
       LET newLine == inputDialog(typed) IN
       IF newLine = <<>>
       THEN AddRefused(typed, "Add cancelled.", FALSE)
       ELSE \E dest \in AddTargets :
              Started("add", NoRepo, 0, dest, <<newLine>>, "push")

\* F3: lines 1426-1437.
AddKey ==
  /\ Idle
  /\ ~g_readOnly
  /\ \E typed \in AddInputs :
       LET newLine == inputDialog(typed) IN
       IF newLine = <<>>
       THEN AddRefused(typed, "Add cancelled.", FALSE)
       ELSE IF ~StartsWith(newLine, sDeb)
       THEN AddRefused(typed, "Invalid - must start with 'deb'.", TRUE)
       ELSE \E dest \in AddTargets :
              Started("add", NoRepo, 0, dest, <<newLine>>, "push")

\* An applyUndo that restores the oldest snapshot (front() for back()).
UndoKeyOldest ==
  /\ Idle
  /\ ~g_readOnly
  /\ IF g_undoStack = <<>>
     THEN Rejected("undo", NoRepo, 0, "", "", "Nothing to undo.", TRUE, TRUE)
     ELSE Started("undo", NoRepo, 0, g_undoStack[1].file, g_undoStack[1].lines,
                  "aw_open")

\* An applyUndo without the test for an empty stack.
UndoKeyNoCheck ==
  /\ Idle
  /\ ~g_readOnly
  /\ IF g_undoStack = <<>>
     THEN Started("undo", NoRepo, 0, mainList, <<>>, "aw_open")
     ELSE Started("undo", NoRepo, 0, g_undoStack[Len(g_undoStack)].file,
                  g_undoStack[Len(g_undoStack)].lines, "aw_open")

\* Ctrl+Z: lines 1555-1558 and applyUndo to line 535.
UndoKey ==
  /\ Idle
  /\ ~g_readOnly
  /\ IF g_undoStack = <<>>
     THEN Rejected("undo", NoRepo, 0, "", "", "Nothing to undo.", TRUE, TRUE)
     ELSE LET u == g_undoStack[Len(g_undoStack)] IN
          Started("undo", NoRepo, 0, u.file, u.lines, "aw_open")

(***************************************************************************)
(* The write steps of the handlers.                                        *)
(***************************************************************************)

\* An I/O failure is admitted.
MayFail == faults > 0

\* pushUndo(repo.file), lines 555, 593, 639; pushUndo(dest), line 1438.
PushUndoStep ==
  /\ pc = "push"
  /\ g_undoStack' = pushUndo(g_undoStack, call.file, disk)
  /\ hist' = [hist EXCEPT ![Len(hist)].pushed = TRUE]
  /\ pc' = "backup"
  /\ UNCHANGED <<disk, tmp, backups, g_repos, g_readOnly, useDeb822, call,
                 status, fuel, faults>>
  /\ UNCHANGED restVars

\* Where the handler goes after backupFile.
AfterBackup == IF call.op = "add" THEN "append" ELSE "aw_open"

\* backupFile, lines 473-492, as called at lines 557, 595, 641 and 1440:
\* the copy is made, or create_directories / copy_file fails (it always
\* does for a missing source) and the caller keeps a warning (the add
\* handler drops it).
BackupStep ==
  /\ pc = "backup"
  /\ \/ /\ disk[call.file].exists
        /\ backups' = backups \cup {[src |-> call.file, data |-> disk[call.file]]}
        /\ hist' = [hist EXCEPT ![Len(hist)].backup = "made"]
        /\ UNCHANGED <<call, faults>>
     \/ /\ ~disk[call.file].exists \/ MayFail
        /\ faults' = IF disk[call.file].exists THEN faults - 1 ELSE faults
        /\ backups' = backups
        /\ hist' = [hist EXCEPT ![Len(hist)].backup = "failed"]
        /\ call' = [call EXCEPT !.errMsg =
                      IF call.op = "add" THEN @ ELSE "[warn] backup skipped: "]
  /\ pc' = AfterBackup
  /\ UNCHANGED <<disk, tmp, g_repos, g_undoStack, g_readOnly, useDeb822,
                 status, fuel>>
  /\ UNCHANGED restVars

\* The bytes of `line' appended without the terminator: a write cut short.
AppendPartial(f, line) ==
  IF ~f.exists \/ f.lines = <<>> THEN FileNoNL(<<line>>)
  ELSE IF f.term THEN FileNoNL(Append(f.lines, line))
  ELSE FileNoNL(SubSeq(f.lines, 1, Len(f.lines) - 1)
                \o <<f.lines[Len(f.lines)] \o line>>)

\* F3, lines 1441-1447, after the stream has opened: the file exists, the
\* write has the result `ok', then loadRepos and setStatus.
Appended(ok, f2) ==
  LET d2 == [disk EXCEPT ![call.file] = f2] IN
  /\ disk' = d2
  /\ g_repos' = loadRepos(d2, useDeb822)
  /\ Reloaded(g_repos')
  /\ status' = [text   |-> IF ok THEN "Repository added to " ELSE "Write error!",
                errMsg |-> "", isErr |-> ~ok]
  /\ hist' = Ended(hist, ok, IF ok THEN "" ELSE "Write error!", FALSE, d2,
                   tmp, g_undoStack)
  /\ faults' = IF ok THEN faults ELSE faults - 1

\* F3, lines 1441-1447: the append to the target file.
AppendStep ==
  /\ pc = "append"
  /\ \/ \* line 1442: the stream does not open; the handler leaves, no reload
        /\ MayFail
        /\ faults' = faults - 1
        /\ status' = [text |-> "Cannot open ", errMsg |-> "", isErr |-> TRUE]
        /\ hist' = Ended(hist, FALSE, "Cannot open ", FALSE, disk, tmp, g_undoStack)
        /\ UNCHANGED <<disk, g_repos, viewVars>>
     \/ Appended(TRUE, AppendLine(disk[call.file], call.lines[1]))
     \/ /\ MayFail
        /\ \/ Appended(FALSE, IF disk[call.file].exists THEN disk[call.file]
                              ELSE FileOf(<<>>))
           \/ Appended(FALSE, AppendPartial(disk[call.file], call.lines[1]))
  /\ pc' = "idle"
  /\ call' = NoCall
  /\ UNCHANGED <<tmp, backups, g_undoStack, g_readOnly, useDeb822, fuel>>
  /\ UNCHANGED <<probeVars, ext>>

\* atomicWriteLines goes on to its next step.
AwGoes(t2, next) ==
  /\ tmp' = t2
  /\ pc' = next
  /\ UNCHANGED <<disk, backups, g_repos, g_undoStack, g_readOnly, useDeb822,
                 call, status, hist, fuel, faults>>
  /\ UNCHANGED restVars

\* atomicWriteLines fails: errMsg is set, false is returned.
AwFails(errMsg, t2) ==
  /\ MayFail
  /\ faults' = faults - 1
  /\ Returned(FALSE, errMsg, FALSE, disk, t2)

\* atomicWriteLines, lines 510-513: open the temporary file, truncating it.
AwOpen ==
  /\ pc = "aw_open"
  /\ \/ AwGoes([tmp EXCEPT ![call.file] = FileOf(<<>>)], "aw_write")
     \/ AwFails("Cannot open tmp file", tmp)

\* The temporary file after the first k lines were written.
Written(k) == [tmp EXCEPT ![call.file] = FileOf(SubSeq(call.lines, 1, k))]

\* Where a failing write stops: half way through the lines.
WriteCuts(n) == {n \div 2}

\* A writer that writes the lines to the path itself.
AwWriteInPlace ==
  /\ pc = "aw_write"
  /\ disk' = [disk EXCEPT ![call.file] = FileOf(call.lines)]
  /\ pc' = "aw_rename"
  /\ UNCHANGED <<tmp, backups, g_repos, g_undoStack, g_readOnly, useDeb822,
                 call, status, hist, fuel, faults>>
  /\ UNCHANGED restVars

\* atomicWriteLines, lines 514-516: write every line, flush, test the stream.
AwWrite ==
  /\ pc = "aw_write"
  /\ \/ AwGoes(Written(Len(call.lines)), "aw_rename")
     \/ \E k \in WriteCuts(Len(call.lines)) :
          AwFails("Write error on tmp file", Written(k))

\* atomicWriteLines, lines 518-523: rename the temporary file over the path,
\* or remove it when rename fails.
AwRename ==
  /\ pc = "aw_rename"
  /\ \/ /\ Returned(TRUE, call.errMsg, TRUE,
                    [disk EXCEPT ![call.file] = tmp[call.file]],
                    [tmp EXCEPT ![call.file] = NoFile])
        /\ UNCHANGED faults
     \/ AwFails("rename() failed: ", [tmp EXCEPT ![call.file] = NoFile])

Next ==
  \/ ReadOnlyKey
  \/ ToggleListKey
  \/ ToggleDeb822Key
  \/ DeleteKey
  \/ AddKey
  \/ UndoKey
  \/ PushUndoStep
  \/ BackupStep
  \/ AppendStep
  \/ AwOpen
  \/ AwWrite
  \/ AwRename

Spec == Init /\ [][Next]_vars

(***************************************************************************)
(* The same handlers with every I/O step succeeding, one run more.         *)
(***************************************************************************)
MaxOpsNoFault == 3

InitNoFault == InitWith(MaxOpsNoFault, 0)

SpecNoFault == InitNoFault /\ [][Next]_vars

(***************************************************************************)
(* Long runs over one one-line file: the undo stack fills and overflows.   *)
(***************************************************************************)
DeepOps == 22

DeepSamples == { BaseMain, FileOf(<<lnHashA>>), FileNoNL(<<lnIndA>>) }

InitDeep ==
  /\ \E m \in DeepSamples :
       disk = [f \in Files |-> IF f = mainList THEN m ELSE NoFile]
  /\ tmp = [f \in Files |-> NoFile]
  /\ backups = {}
  /\ g_readOnly = FALSE
  /\ useDeb822 = TRUE
  /\ g_repos = loadRepos(disk, useDeb822)
  /\ g_undoStack = <<>>
  /\ pc = "idle"
  /\ call = NoCall
  /\ status = [text |-> "Ready.", errMsg |-> "", isErr |-> FALSE]
  /\ hist = <<>>
  /\ fuel = DeepOps
  /\ faults = 0
  /\ ProbeInit
  /\ ViewInit({0})
  /\ ext = NoFile

NextDeep ==
  \/ ToggleListKey
  \/ DeleteKey
  \/ UndoKey
  \/ PushUndoStep
  \/ BackupStep
  \/ AwOpen
  \/ AwWrite
  \/ AwRename

SpecDeep == InitDeep /\ [][NextDeep]_vars

(***************************************************************************)
(* The handlers with another process editing the managed files between a   *)
(* load and the next key: the external race of the mutation engine.        *)
(***************************************************************************)
MaxOpsEdit == 2

\* What the other process puts at the head of the file.
EditInserts(f) ==
  IF f = srcFile THEN { <<>>, <<kTypes, kURIsV, kSuitesS, <<>>>> }
  ELSE { <<>>, <<lnB>> }

\* How many lines the other process removes from the head of the file: none,
\* or the first line, or the first paragraph with the blank line after it.
EditRemovals(f, ls) ==
  IF ls = <<>> THEN {0}
  ELSE IF f = srcFile
       THEN {0, IF BlockRanges(ls)[1].e < Len(ls) THEN BlockRanges(ls)[1].e + 1
                ELSE Len(ls)}
       ELSE {0, 1}

\* Another process rewrites a managed file while the foreground waits for a
\* key with its list in sync with the disk: it removes the first `del'
\* lines and puts the lines `ins' in their place.  The log records the edit
\* (ri holds del, lines holds ins); nothing is reloaded.
ExternalEdit ==
  /\ Idle
  /\ g_repos = loadRepos(disk, useDeb822)
  /\ \E f \in Files :
       /\ disk[f].exists
       /\ LET ls == readAllLines(disk[f]) IN
          \E ins \in EditInserts(f), del \in EditRemovals(f, ls) :
            /\ ins # <<>> \/ del > 0
            /\ LET d2 == [disk EXCEPT ![f] =
                           FileOf(ins \o SubSeq(ls, del + 1, Len(ls)))]
               IN /\ disk' = d2
                  /\ hist' = Ended(Begun("edit", NoRepo, del, f, ins), TRUE, "",
                                   FALSE, d2, tmp, g_undoStack)
  /\ fuel' = fuel - 1
  /\ UNCHANGED <<tmp, backups, g_repos, g_undoStack, g_readOnly, useDeb822, pc,
                 call, status, faults>>
  /\ UNCHANGED restVars

InitEdit ==
  /\ InitWith(MaxOpsEdit, 0)
  /\ ~g_readOnly
  /\ useDeb822

NextEdit ==
  \/ ExternalEdit
  \/ ToggleListKey
  \/ ToggleDeb822Key
  \/ DeleteKey
  \/ PushUndoStep
  \/ BackupStep
  \/ AwOpen
  \/ AwWrite
  \/ AwRename

SpecEdit == InitEdit /\ [][NextEdit]_vars

(***************************************************************************)
(* The metadata probe: the foreground's frame (redraw, getch, key) and the *)
(* worker threads, step by step.                                           *)
(***************************************************************************)

\* The foreground moves to `next' inside its frame.
UiAt(next) == [ui EXCEPT !.pc = next]

\* A step of the foreground that touches the mailbox.
UiStep(ui2, am2) ==
  /\ ui' = ui2
  /\ g_asyncMeta' = am2
  /\ UNCHANGED <<workers, fileVars>>

\* drawDetailPane, line 1036: if (g_asyncMeta.ready.load()).
DrawCheck ==
  /\ ui.pc = "draw"
  /\ UiStep(UiAt(IF g_asyncMeta.ready THEN "d_lock" ELSE "key"), g_asyncMeta)

\* line 1037: lock_guard lk(g_asyncMeta.mtx), waiting while it is held.
DrawLock ==
  /\ ui.pc = "d_lock"
  /\ g_asyncMeta.mtx = 0
  /\ UiStep(UiAt("d_copy"), [g_asyncMeta EXCEPT !.mtx = Foreground])

\* lines 1038-1039: g_curMeta = g_asyncMeta.meta; g_metaShown = true.
DrawCopy ==
  /\ ui.pc = "d_copy"
  /\ UiStep([ui EXCEPT !.pc = "d_clear", !.curMeta = g_asyncMeta.meta,
                       !.metaShown = TRUE,
                       !.copied = Append(@, g_asyncMeta.meta.id)],
            g_asyncMeta)

\* A drawDetailPane that leaves the flag set.
DrawClearKeeps ==
  /\ ui.pc = "d_clear"
  /\ UiStep(UiAt("d_unlock"), g_asyncMeta)

\* line 1041: g_asyncMeta.ready.store(false).
DrawClear ==
  /\ ui.pc = "d_clear"
  /\ UiStep(UiAt("d_unlock"), [g_asyncMeta EXCEPT !.ready = FALSE])

\* line 1042: the lock_guard goes out of scope.
DrawUnlock ==
  /\ ui.pc = "d_unlock"
  /\ UiStep(UiAt("key"), [g_asyncMeta EXCEPT !.mtx = 0])

\* lines 1365, 1377-1378: getch() gives ERR after 100 ms; next frame.
GetchTimeout ==
  /\ ui.pc = "key"
  /\ UiStep(UiAt("draw"), g_asyncMeta)

\* 'm', lines 1515-1520: g_metaShown = false.  The key is admitted while
\* one more worker can be started, whether or not this request starts it.
KeyM ==
  /\ ui.pc = "key"
  /\ ui.keys < MaxKeys
  /\ g_filtered # <<>>
  /\ \E w \in Workers : workers[w].pc = "none"
  /\ UiStep([ui EXCEPT !.pc = "m_ready", !.metaShown = FALSE,
                       !.keys = @ + 1, !.asked = @ + 1],
            g_asyncMeta)

\* KEY_UP / KEY_DOWN, lines 1388-1393: when the selection can move it
\* moves, g_metaShown = false and g_asyncMeta.ready = false; at the end of
\* the list the key changes nothing.
KeyNav ==
  /\ ui.pc = "key"
  /\ ui.keys < MaxKeys
  /\ \E step \in {-1, 1} :
       IF ui.sel + step \in 1..Len(g_filtered)
       THEN UiStep([ui EXCEPT !.pc = "draw", !.sel = @ + step,
                             !.metaShown = FALSE, !.keys = @ + 1],
                   [g_asyncMeta EXCEPT !.ready = FALSE])
       ELSE UiStep([ui EXCEPT !.pc = "draw", !.keys = @ + 1], g_asyncMeta)

\* listHeight, line 884: std::max(1, LINES - 5).
listHeight(LINES) == IF LINES - 5 > 1 THEN LINES - 5 ELSE 1

\* The heights of the terminal: too short for the panes, and 24 lines.
TermLines == {5, 24}

\* The rows a page key moves the selection by.
PageRows == {listHeight(l) : l \in TermLines}

\* std::min and std::max of two integers.
Min2(a, b) == IF a < b THEN a ELSE b
Max2(a, b) == IF a > b THEN a ELSE b

\* KEY_NPAGE, KEY_PPAGE, KEY_HOME, KEY_END, lines 1394-1403: the selection
\* moves and g_metaShown = false; g_asyncMeta.ready is left as it is.
KeyPage ==
  /\ ui.pc = "key"
  /\ ui.keys < MaxKeys
  /\ g_filtered # <<>>
  /\ \E to \in {Min2(ui.sel + h, Len(g_filtered)) : h \in PageRows}
              \cup {Max2(ui.sel - h, 1) : h \in PageRows}
              \cup {1, Len(g_filtered)} :
       UiStep([ui EXCEPT !.pc = "draw", !.sel = to, !.metaShown = FALSE,
                         !.keys = @ + 1],
              g_asyncMeta)

\* 'm', line 1521: g_asyncMeta.ready = false.
MReady ==
  /\ ui.pc = "m_ready"
  /\ UiStep(UiAt("f_check"), [g_asyncMeta EXCEPT !.ready = FALSE])

\* A fetchMetaAsync without the test of the running flag.
FetchCheckNone ==
  /\ ui.pc = "f_check"
  /\ \E w \in Workers : workers[w].pc = "none"
  /\ UiStep(UiAt("f_ready"), g_asyncMeta)

\* fetchMetaAsync, line 814: if (g_asyncMeta.running) return.
FetchCheck ==
  /\ ui.pc = "f_check"
  /\ IF g_asyncMeta.running
     THEN UiStep([ui EXCEPT !.pc = "draw", !.dropped = @ + 1], g_asyncMeta)
     ELSE UiStep(UiAt("f_ready"), g_asyncMeta)

\* line 815: g_asyncMeta.ready = false.
FetchReady ==
  /\ ui.pc = "f_ready"
  /\ UiStep(UiAt("f_running"), [g_asyncMeta EXCEPT !.ready = FALSE])

\* line 816: g_asyncMeta.running = true.
FetchRunning ==
  /\ ui.pc = "f_running"
  /\ UiStep(UiAt("f_spawn"), [g_asyncMeta EXCEPT !.running = TRUE])

\* lines 819-828: RepoEntry r = repo, the entry under the cursor (line
\* 1518); std::thread(...).detach(); the worker starts.
FetchSpawn ==
  /\ ui.pc = "f_spawn"
  /\ \E w \in Workers :
       /\ workers[w].pc = "none"
       /\ \A v \in Workers : v < w => workers[v].pc # "none"
       /\ workers' = [workers EXCEPT ![w].pc = "cache",
                                     ![w].r = g_filtered[ui.sel]]
  /\ ui' = UiAt("draw")
  /\ UNCHANGED <<g_asyncMeta, fileVars>>

\* A step of the worker w that does not touch the mailbox.
WorkerStep(w, rec) ==
  /\ workers' = [workers EXCEPT ![w] = rec]
  /\ UNCHANGED <<g_asyncMeta, ui, fileVars>>

\* A step of the worker w on the mailbox.
MailboxStep(w, next, am2) ==
  /\ workers' = [workers EXCEPT ![w].pc = next]
  /\ g_asyncMeta' = am2
  /\ UNCHANGED <<ui, fileVars>>

\* line 822: RepoMeta m = metaFromCache(r), reading the cache file.
WCache ==
  \E w \in Workers :
    /\ workers[w].pc = "cache"
    /\ WorkerStep(w, [workers[w] EXCEPT !.pc = "reach",
                                         !.m = [id |-> w, reachable |-> FALSE]])

\* line 823: m.reachable = checkReachable(r.uri, 3000).
WReach ==
  \E w \in Workers, net \in NetOutcomes :
    /\ workers[w].pc = "reach"
    /\ WorkerStep(w, [workers[w] EXCEPT !.pc = "lock", !.net = net,
                                         !.m.reachable = checkReachable(net)])

\* A worker that goes on without the mutex.
WLockSkips ==
  \E w \in Workers :
    /\ workers[w].pc = "lock"
    /\ MailboxStep(w, "meta", g_asyncMeta)

\* line 824: lock_guard lk(g_asyncMeta.mtx), waiting while it is held.
WLock ==
  \E w \in Workers :
    /\ workers[w].pc = "lock"
    /\ g_asyncMeta.mtx = 0
    /\ MailboxStep(w, "meta", [g_asyncMeta EXCEPT !.mtx = w])

\* line 825: g_asyncMeta.meta = m.
WMeta ==
  \E w \in Workers :
    /\ workers[w].pc = "meta"
    /\ workers' = [workers EXCEPT ![w].pc = "ready", ![w].writes = @ + 1]
    /\ g_asyncMeta' = [g_asyncMeta EXCEPT !.meta = workers[w].m]
    /\ UNCHANGED <<ui, fileVars>>

\* line 826: g_asyncMeta.ready = true.
WReady ==
  \E w \in Workers :
    /\ workers[w].pc = "ready"
    /\ MailboxStep(w, "running", [g_asyncMeta EXCEPT !.ready = TRUE])

\* line 827: g_asyncMeta.running = false.
WRunning ==
  \E w \in Workers :
    /\ workers[w].pc = "running"
    /\ MailboxStep(w, "unlock", [g_asyncMeta EXCEPT !.running = FALSE])

\* line 828: the lock_guard goes out of scope and the thread ends.
WUnlock ==
  \E w \in Workers :
    /\ workers[w].pc = "unlock"
    /\ MailboxStep(w, "exited",
                   [g_asyncMeta EXCEPT !.mtx = IF @ = w THEN 0 ELSE @])

InitProbe ==
  /\ InitWith(0, 0)
  /\ ~g_readOnly
  /\ useDeb822
  /\ disk[mainList] = BaseMain /\ disk[srcFile] = BaseSrc

NextProbe ==
  \/ DrawCheck
  \/ DrawLock
  \/ DrawCopy
  \/ DrawClear
  \/ DrawUnlock
  \/ GetchTimeout
  \/ KeyM
  \/ KeyNav
  \/ KeyPage
  \/ MReady
  \/ FetchCheck
  \/ FetchReady
  \/ FetchRunning
  \/ FetchSpawn
  \/ WCache
  \/ WReach
  \/ WLock
  \/ WMeta
  \/ WReady
  \/ WRunning
  \/ WUnlock

SpecProbe == InitProbe /\ [][NextProbe]_vars


(***************************************************************************)
(* checkReachable step by step: the caller and the resolver thread it      *)
(* detaches, which holds references to the caller's locals.                *)
(***************************************************************************)

\* The process dies: no thread takes another step.
Crashed ==
  /\ workers' = [w \in Workers |->
                   [workers[w] EXCEPT !.pc = "crashed", !.res = "crashed"]]
  /\ ui' = UiAt("crashed")
  /\ pc' = "crashed"
  /\ UNCHANGED <<g_asyncMeta, disk, tmp, backups, g_repos, g_undoStack,
                 g_readOnly, useDeb822, call, status, hist, fuel, faults,
                 viewVars, ext>>

\* A step of the resolver thread of worker w, which reads or writes locals
\* of checkReachable through the references its lambda captured ([&], line
\* 778).  While the call is running the step does what the code says.
\* After the call has returned the locals are gone and the access is
\* undefined: the thread goes on over whatever is at that address now, or
\* the process dies.
ResolverStep(w, rec) ==
  IF workers[w].frame = "live"
  THEN WorkerStep(w, rec)
  ELSE \/ WorkerStep(w, [rec EXCEPT !.late = TRUE])
       \/ Crashed

\* lines 757-785: host, portStr, hints, gai_ret, gai_res, mtx, cv, done are
\* set up, the resolver thread is detached, the caller waits on cv.
CrSpawn ==
  \E w \in Workers :
    /\ workers[w].pc = "reach"
    /\ WorkerStep(w, [workers[w] EXCEPT !.pc = "cr_wait", !.frame = "live",
                                         !.res = "gai", !.gai = "none",
                                         !.mtx = FALSE, !.done = FALSE])

\* line 779: gai_ret = getaddrinfo(host.c_str(), portStr.c_str(), &hints,
\* &gai_res) returns, having read the strings and written both results.
ResolveGai ==
  \E w \in Workers, ret \in {"ok", "fail"} :
    /\ workers[w].res = "gai"
    /\ ResolverStep(w, [workers[w] EXCEPT !.res = "r_lock", !.gai = ret])

\* line 780: std::lock_guard lk(mtx), waiting while the caller holds it.
ResolveLock ==
  \E w \in Workers :
    /\ workers[w].res = "r_lock"
    /\ ~workers[w].mtx
    /\ ResolverStep(w, [workers[w] EXCEPT !.res = "r_done", !.mtx = TRUE])

\* line 781: done = true; cv.notify_one().
ResolveDone ==
  \E w \in Workers :
    /\ workers[w].res = "r_done"
    /\ ResolverStep(w, [workers[w] EXCEPT !.res = "r_unlock", !.done = TRUE])

\* line 782: the lock_guard releases mtx and the thread ends.
ResolveUnlock ==
  \E w \in Workers :
    /\ workers[w].res = "r_unlock"
    /\ ResolverStep(w, [workers[w] EXCEPT !.res = "exited", !.mtx = FALSE])

\* checkReachable returns `net' as its outcome: the locals go out of scope.
CrReturns(w, net) ==
  WorkerStep(w, [workers[w] EXCEPT !.pc = "lock", !.frame = "ended",
                                   !.net = net,
                                   !.m.reachable = checkReachable(net)])

\* lines 786-787: cv.wait_for(lk, timeout_ms, [&]{ return done; }) comes back
\* with mtx held and done set.
CrWaitDone ==
  \E w \in Workers :
    /\ workers[w].pc = "cr_wait"
    /\ ~workers[w].mtx
    /\ workers[w].done
    /\ WorkerStep(w, [workers[w] EXCEPT !.pc = "cr_conn"])

\* lines 786-787: the wait runs out, mtx is taken again, done is still
\* false: return false.
CrWaitTimeout ==
  \E w \in Workers :
    /\ workers[w].pc = "cr_wait"
    /\ ~workers[w].mtx
    /\ ~workers[w].done
    /\ CrReturns(w, [dns |-> "timeout", conn |-> "none"])

\* lines 789-801: a failed resolution returns false; otherwise socket,
\* connect, select with its timeout, close, return sel == 1.
CrConnect ==
  \E w \in Workers :
    /\ workers[w].pc = "cr_conn"
    /\ IF workers[w].gai # "ok"
       THEN CrReturns(w, [dns |-> "fail", conn |-> "none"])
       ELSE \E c \in {"accepted", "refused", "error", "silent"} :
              CrReturns(w, [dns |-> "ok", conn |-> c])

NextResolve ==
  \/ DrawCheck
  \/ DrawLock
  \/ DrawCopy
  \/ DrawClear
  \/ DrawUnlock
  \/ GetchTimeout
  \/ KeyM
  \/ MReady
  \/ FetchCheck
  \/ FetchReady
  \/ FetchRunning
  \/ FetchSpawn
  \/ WCache
  \/ CrSpawn
  \/ ResolveGai
  \/ ResolveLock
  \/ ResolveDone
  \/ ResolveUnlock
  \/ CrWaitDone
  \/ CrWaitTimeout
  \/ CrConnect
  \/ WLock
  \/ WMeta
  \/ WReady
  \/ WRunning
  \/ WUnlock

SpecResolve == InitProbe /\ [][NextResolve]_vars

\* The scheduler runs every thread that can take a step: the worker, the
\* foreground inside its frame, and the resolver once getaddrinfo is back.
\* Nothing makes getaddrinfo return, and nobody has to press a key.
FairResolve ==
  /\ WF_vars(WCache) /\ WF_vars(CrSpawn) /\ WF_vars(CrWaitDone)
  /\ WF_vars(CrWaitTimeout) /\ WF_vars(CrConnect)
  /\ WF_vars(WLock) /\ WF_vars(WMeta) /\ WF_vars(WReady)
  /\ WF_vars(WRunning) /\ WF_vars(WUnlock)
  /\ WF_vars(ResolveLock) /\ WF_vars(ResolveDone) /\ WF_vars(ResolveUnlock)
  /\ WF_vars(DrawLock) /\ WF_vars(DrawCopy) /\ WF_vars(DrawClear)
  /\ WF_vars(DrawUnlock) /\ WF_vars(MReady) /\ WF_vars(FetchCheck)
  /\ WF_vars(FetchReady) /\ WF_vars(FetchRunning) /\ WF_vars(FetchSpawn)

SpecResolveFair == SpecResolve /\ FairResolve

(***************************************************************************)
(* SECTION 20, 21 -- search mode, sort, reload: the keys that change the   *)
(* visible list.                                                           *)
(***************************************************************************)

\* The longest query typed in one behaviour.
MaxFilterLen == 2

\* The printable characters typed into the search line.
SearchChars == {"U", "#"}

\* A key handler that only changes the view has ended.
ViewKey(text) ==
  /\ status' = [text |-> text, errMsg |-> "", isErr |-> FALSE]
  /\ UNCHANGED <<disk, tmp, backups, g_undoStack, g_readOnly, useDeb822, pc,
                 call, hist, fuel, faults, probeVars, ext>>

\* '/', lines 1547-1552: enter search mode with an empty query.
SearchKey ==
  /\ pc = "idle"
  /\ ~g_searchMode
  /\ g_searchMode' = TRUE
  /\ g_filterStr' = <<>>
  /\ g_filtered' = rebuildFiltered(g_repos, <<>>, sortMode)
  /\ UNCHANGED <<g_repos, sortMode, status>>
  /\ UNCHANGED <<disk, tmp, backups, g_undoStack, g_readOnly, useDeb822, pc,
                 call, hist, fuel, faults, probeVars, ext>>

\* handleSearchInput, lines 1327-1331: a printable character.
SearchChar ==
  /\ pc = "idle"
  /\ g_searchMode
  /\ Len(g_filterStr) < MaxFilterLen
  /\ \E ch \in SearchChars :
       /\ g_filterStr' = Append(g_filterStr, ch)
       /\ g_filtered' = rebuildFiltered(g_repos, Append(g_filterStr, ch), sortMode)
  /\ UNCHANGED <<g_repos, g_searchMode, sortMode, status>>
  /\ UNCHANGED <<disk, tmp, backups, g_undoStack, g_readOnly, useDeb822, pc,
                 call, hist, fuel, faults, probeVars, ext>>

\* A backspace that leaves the visible list as it is.
SearchBackspaceNoRebuild ==
  /\ pc = "idle"
  /\ g_searchMode
  /\ g_filterStr' = IF g_filterStr # <<>>
                    THEN SubSeq(g_filterStr, 1, Len(g_filterStr) - 1)
                    ELSE g_filterStr
  /\ UNCHANGED <<g_repos, g_filtered, g_searchMode, sortMode, status>>
  /\ UNCHANGED <<disk, tmp, backups, g_undoStack, g_readOnly, useDeb822, pc,
                 call, hist, fuel, faults, probeVars, ext>>

\* handleSearchInput, lines 1325-1326: backspace.
SearchBackspace ==
  /\ pc = "idle"
  /\ g_searchMode
  /\ IF g_filterStr # <<>>
     THEN /\ g_filterStr' = SubSeq(g_filterStr, 1, Len(g_filterStr) - 1)
          /\ g_filtered' = rebuildFiltered(g_repos, g_filterStr', sortMode)
     ELSE UNCHANGED <<g_filterStr, g_filtered>>
  /\ UNCHANGED <<g_repos, g_searchMode, sortMode, status>>
  /\ UNCHANGED <<disk, tmp, backups, g_undoStack, g_readOnly, useDeb822, pc,
                 call, hist, fuel, faults, probeVars, ext>>

\* handleSearchInput, lines 1317-1324: Esc clears the query, Enter keeps it.
SearchExit ==
  /\ pc = "idle"
  /\ g_searchMode
  /\ g_searchMode' = FALSE
  /\ \E ch \in {"Esc", "Enter"} :
       /\ g_filterStr' = IF ch = "Esc" THEN <<>> ELSE g_filterStr
       /\ g_filtered' = IF ch = "Esc" THEN rebuildFiltered(g_repos, <<>>, sortMode)
                        ELSE g_filtered
       /\ ViewKey(IF g_filterStr' = <<>> THEN "Search cleared." ELSE "Filter: ")
  /\ UNCHANGED <<g_repos, sortMode>>

\* 's', lines 1537-1544: the next sort mode.
SortKey ==
  /\ pc = "idle"
  /\ ~g_searchMode
  /\ sortMode' = (sortMode + 1) % 3
  /\ g_filtered' = rebuildFiltered(g_repos, g_filterStr, sortMode')
  /\ ViewKey("Sort: ")
  /\ UNCHANGED <<g_repos, g_filterStr, g_searchMode>>

\* F6, lines 1473-1480: reload.
ReloadKey ==
  /\ pc = "idle"
  /\ ~g_searchMode
  /\ g_repos' = loadRepos(disk, useDeb822)
  /\ Reloaded(g_repos')
  /\ ViewKey("Reloaded. ")

(***************************************************************************)
(* SECTION 12 -- export / import                                           *)
(***************************************************************************)

\* Line 652 (the dash of the source is written "-").
sExportHead ==
  <<"#", " ", "A", "P", "T", " ", "R", "e", "p", "o", "s", "i", "t", "o",
    "r", "y", " ", "E", "x", "p", "o", "r", "t", " ", "-", " ", "r", "e",
    "l", "i", "x">>

\* Lines 653-655: "# Generated: " and the local time, one reading of the clock.
sGenerated ==
  <<"#", " ", "G", "e", "n", "e", "r", "a", "t", "e", "d", ":", " ", "2",
    "0", "2", "6", "-", "1", "1", "-", "0", "5", " ", "0", "0", ":", "0",
    "0", ":", "0", "0">>

\* Line 660.
sFrom == <<" ", " ", "#", " ", "f", "r", "o", "m", ":", " ">>

\* exportRepos, lines 657-660: the line of one entry.
ExportLine(r) ==
  (IF r.enabled THEN <<>> ELSE sHashSp)
  \o sDeb \o <<" ">> \o r.uri \o <<" ">> \o r.suite
  \o (IF r.components # <<>> THEN <<" ">> \o r.components ELSE <<>>)
  \o sFrom \o PathChars(r.file)

\* exportRepos, lines 652-661: the lines written to the export file.
exportRepos(repos) ==
  <<sExportHead, sGenerated, <<>>>>
  \o [i \in 1..Len(repos) |-> ExportLine(repos[i])]

\* importRepos, lines 670-671: the trimmed displays of the loaded entries.
Existing(repos) == [i \in 1..Len(repos) |-> trimStr(repos[i].display)]

\* importRepos, lines 677-687: the scan of the import file.  `added' are the
\* lines put into the output stream.  t.substr(4) is evaluated inside the
\* loop over `existing': with a t shorter than four characters it throws
\* std::out_of_range, which nothing catches.
RECURSIVE ImportScan(_, _, _)
ImportScan(ls, existing, added) ==
  IF ls = <<>> THEN [added |-> added, thrown |-> FALSE]
  ELSE LET t == trimStr(Head(ls)) IN
       IF t = <<>> \/ t[1] = "#" THEN ImportScan(Tail(ls), existing, added)
       ELSE IF ~StartsWith(t, sDeb) THEN ImportScan(Tail(ls), existing, added)
       ELSE IF existing # <<>> /\ Len(t) < 4
            THEN [added |-> added, thrown |-> TRUE]
       ELSE IF \E i \in 1..Len(existing) :
                  Contains(toLower(existing[i]), toLower(Substr(t, 4)))
            THEN ImportScan(Tail(ls), existing, added)
       ELSE ImportScan(Tail(ls), existing, Append(added, t))

\* ofstream(path, ios::app) has opened: the file exists.
Opened(f) == IF f.exists THEN f ELSE FileOf(<<>>)

\* out << t << "\n" for every line of `ls'.
RECURSIVE AppendLines(_, _)
AppendLines(f, ls) ==
  IF ls = <<>> THEN f ELSE AppendLines(AppendLine(f, Head(ls)), Tail(ls))

\* What is typed into the Export / Import dialog when it is neither an
\* export nor an import with a path: nothing, one word, another verb.
F8Others == { <<>>, <<"import">>, <<"copy", "/tmp/x">> }

\* The F8 handler has ended without touching a managed file.
F8Ends(op, ok, errMsg, st) ==
  /\ hist' = Ended(Begun(op, NoRepo, 0, "", <<>>), ok, errMsg, FALSE,
                   disk, tmp, g_undoStack)
  /\ status' = st
  /\ fuel' = fuel - 1
  /\ UNCHANGED <<disk, tmp, backups, g_repos, g_undoStack, g_readOnly,
                 useDeb822, pc, call>>
  /\ UNCHANGED restVars

\* F8, lines 1494-1499 and 1508-1510: no action, no path, unknown action.
F8OtherKey ==
  /\ Idle
  /\ \E words \in F8Others :
       F8Ends("f8", FALSE, "",
              IF words = <<>> THEN status
              ELSE IF Len(words) < 2
              THEN [text |-> "Usage: export <path> or import <path>",
                    errMsg |-> "", isErr |-> TRUE]
              ELSE [text |-> "Unknown action: ", errMsg |-> "", isErr |-> TRUE])
  /\ UNCHANGED faults

\* F8 "export <path>", lines 1501-1503, and exportRepos: the file is
\* truncated and written; the open or the write may fail.
ExportKey ==
  /\ Idle
  /\ \/ /\ ext' = FileOf(exportRepos(g_repos))
        /\ hist' = Ended(Begun("export", NoRepo, 0, "", <<>>), TRUE, "", FALSE,
                         disk, tmp, g_undoStack)
        /\ status' = [text |-> "Exported to ", errMsg |-> "", isErr |-> FALSE]
        /\ UNCHANGED faults
     \/ /\ MayFail
        /\ faults' = faults - 1
        /\ \E e \in {"Cannot open ", "Write error"} :
             /\ ext' = IF e = "Write error" THEN FileOf(<<>>) ELSE ext
             /\ hist' = Ended(Begun("export", NoRepo, 0, "", <<>>), FALSE, e,
                              FALSE, disk, tmp, g_undoStack)
             /\ status' = [text |-> "Export FAILED: ", errMsg |-> e, isErr |-> TRUE]
  /\ fuel' = fuel - 1
  /\ UNCHANGED <<disk, tmp, backups, g_repos, g_undoStack, g_readOnly,
                 useDeb822, pc, call>>
  /\ UNCHANGED <<probeVars, viewVars>>

\* importRepos has returned `ok' with `errMsg' after leaving the files `d2':
\* lines 1505-1507.  The log keeps the lines of the import file and, in ri,
\* the number of lines put into the stream.
Imported(ok, errMsg, file, n, d2) ==
  /\ disk' = d2
  /\ g_repos' = IF ok THEN loadRepos(d2, useDeb822) ELSE g_repos
  /\ IF ok THEN Reloaded(g_repos') ELSE UNCHANGED viewVars
  /\ hist' = Ended(Begun("import", NoRepo, n, file, readAllLines(ext)), ok,
                   errMsg, FALSE, d2, tmp, g_undoStack)
  /\ status' = [text |-> errMsg, errMsg |-> "", isErr |-> ~ok]
  /\ pc' = pc

\* F8 "import <path>", lines 1504-1507, and importRepos.  The handler does
\* not test g_readOnly: without root the open of /etc/apt/sources.list for
\* append is decided by the mode of the file, which the program never reads.
ImportKey ==
  /\ Idle
  /\ LET scan == ImportScan(readAllLines(ext), Existing(g_repos), <<>>)
         open == Opened(disk[mainList])
         n    == Len(scan.added)
     IN
     \/ \* line 667: the import file does not open
        /\ ~ext.exists
        /\ Imported(FALSE, "Cannot open ", "", 0, disk)
        /\ UNCHANGED faults
     \/ \* line 674: the primary file does not open for append
        /\ ext.exists
        /\ g_readOnly \/ MayFail
        /\ faults' = IF g_readOnly THEN faults ELSE faults - 1
        /\ Imported(FALSE, "Cannot open /etc/apt/sources.list for append",
                    mainList, 0, disk)
     \/ \* lines 676-690: the scan ends and the stream is flushed and closed
        /\ ext.exists
        /\ ~scan.thrown
        /\ Imported(TRUE, IF n = 0 THEN "No new repos found to import."
                          ELSE "repo(s) imported.",
                    mainList, n, [disk EXCEPT ![mainList] = AppendLines(open, scan.added)])
        /\ UNCHANGED faults
     \/ \* the same with the writes failing: the stream is never tested
        /\ ext.exists
        /\ ~scan.thrown
        /\ n > 0
        /\ MayFail
        /\ faults' = faults - 1
        /\ Imported(TRUE, "repo(s) imported.", mainList, n,
                    [disk EXCEPT ![mainList] = open])
     \/ \* line 684 throws: std::terminate.  The lines still in the stream's
        \* buffer are lost, or written if the stack is unwound first.
        /\ ext.exists
        /\ scan.thrown
        /\ \E flushed \in BOOLEAN :
             disk' = [disk EXCEPT ![mainList] =
                        IF flushed THEN AppendLines(open, scan.added) ELSE open]
        /\ hist' = Begun("import", NoRepo, n, mainList, readAllLines(ext))
        /\ pc' = "crashed"
        /\ UNCHANGED <<g_repos, status, faults, viewVars>>
  /\ fuel' = fuel - 1
  /\ UNCHANGED <<tmp, backups, g_undoStack, g_readOnly, useDeb822, call>>
  /\ UNCHANGED <<probeVars, ext>>

(***************************************************************************)
(* The parsers over generated file contents: every one-line file of up to  *)
(* MaxParseLines lines of ParseLines, every paragraph file of one block of *)
(* ParseBlocks or of two blocks of PairBlocks.                             *)
(***************************************************************************)
MaxParseLines == 2

MaxOpsParse == 1

lnHashSpA  == sHashSp \o lnA                            \* # deb u s
lnIndHashA == <<" ">> \o lnHashA                        \*  #deb u s
lnTabHashB == <<"\t", "#", " ", " ">> \o lnB            \* <tab>#  deb v t
kTypesRpm  == sTypes \o <<" ", "r", "p", "m">>          \* Types: rpm
kTypesSrc  == sTypes \o <<" ">> \o sDeb \o <<"-", "s", "r", "c">>
kURIsUV    == sURIs \o <<" ", "u", " ", " ", "v">>      \* URIs: u  v
kCompMN    == sComponents \o <<" ", "m", " ", " ", "n">>  \* Components: m  n
kEnYesCap  == sEnabled \o <<" ">> \o sYesCap            \* Enabled: Yes
kEnYesUp   == sEnabled \o sYesUp                        \* Enabled:YES
kEnYesMix  == sEnabled \o <<" ", "y", "E", "s">>        \* Enabled: yEs

ParseLines ==
  { lnA, lnB, lnHashA, lnHashSpA, lnIndA, lnIndHashA, lnTabHashB, lnNote,
    <<>>, sDeb, <<"#">> }

ParseMainFiles ==
  { FileOf(ls) : ls \in UNION { [1..n -> ParseLines] : n \in 0..MaxParseLines } }

\* A block: the lines that are there, in the order Types, URIs, Suites,
\* Components, Enabled (<<>> stands for a line that is not there).
BlockOf(t, u, s, c, e) ==
  LET Opt(l) == IF l = <<>> THEN <<>> ELSE <<l>> IN
  Opt(t) \o Opt(u) \o Opt(s) \o Opt(c) \o Opt(e)

ParseBlocks ==
  { BlockOf(t, u, s, c, e) :
      t \in {<<>>, kTypes, kTypesRpm, kTypesSrc},
      u \in {<<>>, kURIsU, kURIsUV},
      s \in {<<>>, kSuitesS, kSuitesST, sSuites},
      c \in {<<>>, kCompMN},
      e \in {<<>>, sEnabledNo, sEnabledYes, kEnYesCap, kEnYesUp, kEnYesMix} }
  \ {<<>>}

PairBlocks ==
  { <<kTypes, kURIsU, kSuitesS>>,
    <<lnNote>>,
    <<kTypesRpm, kURIsV, kSuitesS>>,
    <<kTypes, lnNote, kURIsV, kSuitesST, sEnabledNo>> }

\* Blocks with two Enabled lines.
RepeatBlocks ==
  { <<kTypes, kURIsU, kSuitesS, sEnabledNo, sEnabledYes>>,
    <<kTypes, sEnabledYes, kURIsU, kSuitesS, sEnabledNo>> }

ParseSrcFiles ==
  { FileOf(b) : b \in ParseBlocks }
  \cup { FileOf(a \o <<<<" ">>>> \o b) : a \in PairBlocks, b \in PairBlocks }
  \cup { FileOf(b) : b \in RepeatBlocks }

InitParse ==
  /\ \E m \in ParseMainFiles \cup {NoFile}, p \in ParseSrcFiles \cup {NoFile} :
       /\ m = NoFile \/ p = NoFile
       /\ disk = [f \in Files |-> IF f = mainList THEN m ELSE p]
  /\ tmp = [f \in Files |-> NoFile]
  /\ backups = {}
  /\ g_readOnly = FALSE
  /\ useDeb822 = TRUE
  /\ g_repos = loadRepos(disk, useDeb822)
  /\ g_undoStack = <<>>
  /\ pc = "idle"
  /\ call = NoCall
  /\ status = [text |-> "Ready.", errMsg |-> "", isErr |-> FALSE]
  /\ hist = <<>>
  /\ fuel = MaxOpsParse
  /\ faults = 0
  /\ ProbeInit
  /\ ViewInit({0})
  /\ ext = NoFile

NextParse ==
  \/ ReloadKey
  \/ ToggleListKey
  \/ ToggleDeb822Key
  \/ DeleteKey
  \/ PushUndoStep
  \/ BackupStep
  \/ AwOpen
  \/ AwWrite
  \/ AwRename

SpecParse == InitParse /\ [][NextParse]_vars

(***************************************************************************)
(* The visible list: search, sort and reload keys between toggle and       *)
(* delete, over a file with two equal lines and two lines equal but for    *)
(* letter case, and a paragraph file.                                      *)
(***************************************************************************)
MaxOpsView == 1

lnUpA == sDeb \o <<" ", "U", " ", "s">>                 \* deb U s

ViewMain == { FileOf(<<lnA, lnHashA, lnUpA, lnA>>) }

ViewSrc  == { FileOf(<<kTypes, kURIsV, kSuitesST, sEnabledNo, <<>>,
                       kTypes, kURIsU, kSuitesS>>) }

InitView ==
  /\ \E m \in ViewMain, p \in ViewSrc :
       disk = [f \in Files |-> IF f = mainList THEN m ELSE p]
  /\ tmp = [f \in Files |-> NoFile]
  /\ backups = {}
  /\ g_readOnly = FALSE
  /\ useDeb822 = TRUE
  /\ g_repos = loadRepos(disk, useDeb822)
  /\ g_undoStack = <<>>
  /\ pc = "idle"
  /\ call = NoCall
  /\ status = [text |-> "Ready.", errMsg |-> "", isErr |-> FALSE]
  /\ hist = <<>>
  /\ fuel = MaxOpsView
  /\ faults = 0
  /\ ProbeInit
  /\ ViewInit(0..2)
  /\ ext = NoFile

NextView ==
  \/ SearchKey
  \/ SearchChar
  \/ SearchBackspace
  \/ SearchExit
  \/ SortKey
  \/ ReloadKey
  \/ ToggleListKey
  \/ ToggleDeb822Key
  \/ DeleteKey
  \/ PushUndoStep
  \/ BackupStep
  \/ AwOpen
  \/ AwWrite
  \/ AwRename

SpecView == InitView /\ [][NextView]_vars

(***************************************************************************)
(* Export and import next to the other handlers, with and without root,    *)
(* with another process editing the files and one I/O failure.             *)
(***************************************************************************)
MaxOpsImport == 2

MaxFaultsImport == 1

lnUpAS == sDeb \o <<" ", "U", " ", "S">>                \* deb U S
lnAm   == lnA \o <<" ", "m">>                           \* deb u s m

\* Contents of the file named in the dialog.
ImportSamples ==
  { NoFile,
    FileOf(<<lnNote, lnB, <<>>, lnB>>),
    FileOf(<<lnUpAS, lnAm>>),
    FileOf(<<sDeb>>),
    FileOf(<<lnB, sDeb>>) }

InitImport ==
  /\ disk = [f \in Files |-> IF f = mainList THEN BaseMain ELSE BaseSrc]
  /\ tmp = [f \in Files |-> NoFile]
  /\ backups = {}
  /\ g_readOnly \in BOOLEAN
  /\ useDeb822 = TRUE
  /\ g_repos = loadRepos(disk, useDeb822)
  /\ g_undoStack = <<>>
  /\ pc = "idle"
  /\ call = NoCall
  /\ status = [text |-> "Ready.", errMsg |-> "", isErr |-> g_readOnly]
  /\ hist = <<>>
  /\ fuel = MaxOpsImport
  /\ faults = MaxFaultsImport
  /\ ProbeInit
  /\ ViewInit({0})
  /\ ext \in ImportSamples

NextImport ==
  \/ F8OtherKey
  \/ ExportKey
  \/ ImportKey
  \/ ExternalEdit
  \/ ReloadKey
  \/ ReadOnlyKey
  \/ ToggleListKey
  \/ ToggleDeb822Key
  \/ DeleteKey
  \/ AddKey
  \/ UndoKey
  \/ PushUndoStep
  \/ BackupStep
  \/ AppendStep
  \/ AwOpen
  \/ AwWrite
  \/ AwRename

SpecImport == InitImport /\ [][NextImport]_vars

(***************************************************************************)
(* Properties.                                                             *)
(***************************************************************************)

\* The handler run in progress, or the last one that ended.
Last == hist[Len(hist)]

\* The handlers that write through atomicWriteLines.
AwOps == {"toggle", "delete", "undo"}

InAtomicWrite == pc \in {"aw_open", "aw_write", "aw_rename"}

\* C1: atomicWriteLines never exposes a partial file.  While the call is in
\* progress the path holds its complete pre-call content; when the call has
\* returned the path holds either that content or exactly the new line
\* sequence, every line terminated; when it returned false (open, write or
\* rename failed) the path and every other managed file are as before.
C1_AtomicWriteNeverPartial ==
  /\ InAtomicWrite => disk = Last.pre
  /\ \A i \in 1..Len(hist) :
       LET h == hist[i] IN
       (h.done /\ h.op \in AwOps /\ h.file \in Files) =>
          /\ h.post[h.file] \in {h.pre[h.file], FileOf(h.lines)}
          /\ h.ok => h.post[h.file] = FileOf(h.lines)
          /\ ~h.ok => h.post = h.pre
          /\ \A f \in Files \ {h.file} : h.post[f] = h.pre[f]

\* C1 witness: a write that failed half way: the temporary file holds a
\* proper, non-empty part of the new lines and the path is as before.
C1_Witness ==
  /\ pc = "idle"
  /\ hist # <<>>
  /\ Last.done
  /\ Last.errMsg = "Write error on tmp file"
  /\ tmp[Last.file].exists
  /\ tmp[Last.file].lines # <<>>
  /\ tmp[Last.file] # FileOf(Last.lines)
  /\ FileOf(Last.lines) # Last.pre[Last.file]
  /\ disk[Last.file] = Last.pre[Last.file]

\* The handlers that change a managed file.
Mutations == {"toggle", "delete", "add"}

\* Two handler runs in a row, both ended.
TwoRuns == Len(hist) = 2 /\ hist[1].done /\ hist[2].done

\* C2: an undo() issued right after a successful mutation of a file leaves
\* that file byte-identical to its content before the mutation.
C2_UndoRestoresBytes ==
  (/\ TwoRuns
   /\ hist[1].op \in Mutations /\ hist[1].ok
   /\ hist[2].op = "undo" /\ hist[2].ok)
  => hist[2].post[hist[1].file] = hist[1].pre[hist[1].file]

\* C3: toggling an entry, reloading and toggling the same entry again
\* returns its file to the bytes it held before the first toggle.
C3_ToggleTwiceRoundTrip ==
  (/\ TwoRuns
   /\ hist[1].op = "toggle" /\ hist[1].ok
   /\ hist[2].op = "toggle" /\ hist[2].ok
   /\ hist[2].file = hist[1].file /\ hist[2].ri = hist[1].ri)
  => hist[2].post[hist[1].file] = hist[1].pre[hist[1].file]

\* The lines of the range b.
BlockLines(ls, b) == SubSeq(ls, b.s, b.e)

\* The entry is one of those processBlock emits for these lines.
EmittedFrom(e, blines) ==
  LET es == BlockEntries(e.file, blines, e.blockIndex) IN
    \E k \in 1..Len(es) : es[k] = e

\* C4: with no edit between load and mutation, the block toggle and delete
\* select through entry.blockIndex is the block the entry was parsed from:
\* the index is in range and processBlock emits the entry from that block.
C4_SameBlock ==
  pc = "idle" =>
    \A i \in 1..Len(g_repos) :
      LET e  == g_repos[i]
          ls == readAllLines(disk[e.file])
      IN e.isDeb822 =>
           /\ BlockInRange(ls, e)
           /\ EmittedFrom(e, BlockLines(ls, BlockRanges(ls)[e.blockIndex + 1]))

\* parseSourcesFile, lines 357 and 401-411: the ranges of the blocks that
\* yield entries, in file order; blockIndex k is given to the (k+1)-th.
RECURSIVE AcceptedFrom(_, _, _)
AcceptedFrom(ls, rs, i) ==
  IF i > Len(rs) THEN <<>>
  ELSE (IF BlockAccepted(BlockLines(ls, rs[i])) THEN <<rs[i]>> ELSE <<>>)
       \o AcceptedFrom(ls, rs, i + 1)

AcceptedRanges(ls) == AcceptedFrom(ls, BlockRanges(ls), 1)

\* The range of the block the paragraph entry e was parsed from.
OriginBlock(ls, e) == AcceptedRanges(ls)[e.blockIndex + 1]

\* ls without its lines a..b.
Without(ls, a, b) == SubSeq(ls, 1, a - 1) \o SubSeq(ls, b + 1, Len(ls))

\* C5: a successful delete removes exactly the lines of the entry's own
\* directive (one line equal to displayText; the lines of the block the
\* entry was parsed from) and leaves every other line of the file, and
\* every other file, as it was.
C5_DeleteRemovesOwnLines ==
  \A i \in 1..Len(hist) :
    LET h    == hist[i]
        pre  == h.pre[h.file].lines
        post == h.post[h.file].lines
    IN (h.op = "delete" /\ h.done /\ h.ok) =>
         /\ \A f \in Files \ {h.file} : h.post[f] = h.pre[f]
         /\ IF h.repo.isDeb822
            THEN post = Without(pre, OriginBlock(pre, h.repo).s,
                                     OriginBlock(pre, h.repo).e)
            ELSE \E k \in 1..Len(pre) :
                    pre[k] = h.repo.display /\ post = Without(pre, k, k)

\* C6: a paragraph block without an "Enabled:" line is loaded enabled, and
\* toggling an entry of such a block inserts the one line "Enabled: no" as
\* the second line of that block and changes no other line.
C6_ToggleInsertsEnabledNo ==
  /\ pc = "idle" =>
       \A i \in 1..Len(g_repos) :
         LET e  == g_repos[i]
             ls == readAllLines(disk[e.file])
         IN (e.isDeb822 /\ EnabledLine(ls, OriginBlock(ls, e)) = 0) => e.enabled
  /\ \A i \in 1..Len(hist) :
       LET h    == hist[i]
           pre  == h.pre[h.file].lines
           post == h.post[h.file].lines
       IN (/\ h.op = "toggle" /\ h.done /\ h.ok /\ h.repo.isDeb822
           /\ EnabledLine(pre, OriginBlock(pre, h.repo)) = 0)
          => post = SubSeq(pre, 1, OriginBlock(pre, h.repo).s)
                    \o <<sEnabledNo>>
                    \o SubSeq(pre, OriginBlock(pre, h.repo).s + 1, Len(pre))

\* The snapshot pushUndo takes in the handler run h.
Snapshot(h) == [file |-> h.file, lines |-> readAllLines(h.pre[h.file])]

\* C7: the undo stack never holds more than 20 snapshots; a push onto a
\* full stack drops the oldest snapshot and keeps the other 19 in order
\* below the new top; a push onto a shorter stack drops nothing.
C7_UndoStackBounded ==
  /\ Len(g_undoStack) <= 20
  /\ \A i \in 1..Len(hist) :
       LET h == hist[i]
           n == Len(h.stackPre)
       IN (h.pushed /\ h.done) =>
            IF n = 20
            THEN /\ Len(h.stackPost) = 20
                 /\ h.stackPost[20] = Snapshot(h)
                 /\ \A j \in 1..19 : h.stackPost[j] = h.stackPre[j + 1]
            ELSE h.stackPost = Append(h.stackPre, Snapshot(h))

\* C7 witness: a push onto a full stack whose oldest snapshot differs from
\* the second oldest.
C7_Witness ==
  /\ hist # <<>>
  /\ Last.pushed /\ Last.done
  /\ Len(Last.stackPre) = 20
  /\ Last.stackPre[1] # Last.stackPre[2]

\* C8: a successful undo() pops exactly the top snapshot, leaves that
\* snapshot's file holding exactly that snapshot's lines, written through
\* the rename of atomicWriteLines, pushes nothing, and leaves every other
\* snapshot and every other file as it was.
C8_UndoFrame ==
  \A i \in 1..Len(hist) :
    LET h == hist[i]
        n == Len(h.stackPre)
    IN (h.op = "undo" /\ h.done /\ h.ok) =>
         /\ n > 0
         /\ h.stackPost = SubSeq(h.stackPre, 1, n - 1)
         /\ h.file = h.stackPre[n].file
         /\ h.post[h.file] = FileOf(h.stackPre[n].lines)
         /\ h.renamed
         /\ \A f \in Files \ {h.file} : h.post[f] = h.pre[f]

\* C8 witness: a successful undo with a snapshot of another file below the
\* top, which changed the content of the top snapshot's file.
C8_Witness ==
  /\ hist # <<>>
  /\ Last.op = "undo" /\ Last.done /\ Last.ok
  /\ Len(Last.stackPre) >= 2
  /\ Last.stackPre[1].file # Last.file
  /\ Last.post[Last.file] # Last.pre[Last.file]

\* C9: undo() on an empty stack fails with "Nothing to undo.", creates,
\* writes and renames no file, makes no backup, and leaves the stack empty;
\* the condition reaches the status line.
C9_UndoOnEmpty ==
  \A i \in 1..Len(hist) :
    LET h == hist[i] IN
    (~g_readOnly /\ h.op = "undo" /\ h.stackPre = <<>>) =>
       /\ h.done /\ ~h.ok
       /\ h.errMsg = "Nothing to undo."
       /\ h.post = h.pre /\ h.tmpPost = h.tmpPre /\ h.bkPost = h.bkPre
       /\ ~h.renamed /\ ~h.pushed
       /\ h.stackPost = <<>>
       /\ (i = Len(hist) /\ pc = "idle") =>
            (status.errMsg = "Nothing to undo." /\ status.isErr)

\* C9 witness: applyUndo has run on an empty stack.
C9_Witness ==
  /\ ~g_readOnly
  /\ hist # <<>>
  /\ Last.op = "undo" /\ Last.stackPre = <<>> /\ Last.done
  /\ \E f \in Files : disk[f].exists

\* C10: every change a handler makes to a managed file is made by the
\* rename step of atomicWriteLines.
C10_OnlyAtomicWrites ==
  \A i \in 1..Len(hist) :
    LET h == hist[i] IN (h.done /\ h.post # h.pre) => h.renamed

\* The messages with which toggle and delete report a target not found.
NotFoundMsgs ==
  { "Line not found in file (changed externally?)", "Line not found in file",
    "Block index out of range (file changed externally?)",
    "Block index out of range" }

\* The run h is a toggle or delete whose target was found.
FoundRun(h) ==
  /\ h.op \in {"toggle", "delete"}
  /\ h.ri > 0
  /\ ~(h.done /\ h.errMsg \in NotFoundMsgs)

\* C11: in every toggle and delete whose target is found, the snapshot of
\* the pre-mutation content is pushed first, the backup is attempted second
\* and atomicWriteLines runs third: the backup never precedes the snapshot,
\* the temporary file and the file itself are untouched until both have
\* happened, and a run that has ended has gone through all three.
C11_PushBackupWrite ==
  \A i \in 1..Len(hist) :
    LET h       == hist[i]
        running == i = Len(hist) /\ ~h.done
        diskNow == IF running THEN disk ELSE h.post
        tmpNow  == IF running THEN tmp ELSE h.tmpPost
        stkNow  == IF running THEN g_undoStack ELSE h.stackPost
    IN FoundRun(h) =>
         /\ h.backup # "none" => h.pushed
         /\ h.pushed => (stkNow # <<>> /\ stkNow[Len(stkNow)] = Snapshot(h))
         /\ (running /\ InAtomicWrite) => (h.pushed /\ h.backup # "none")
         /\ (diskNow # h.pre \/ tmpNow # h.tmpPre \/ h.renamed)
               => (h.pushed /\ h.backup # "none")
         /\ h.done => (h.pushed /\ h.backup # "none")

\* C11 witness: a toggle or delete has pushed its snapshot and attempted its
\* backup, and atomicWriteLines is about to rename.
C11_Witness ==
  /\ hist # <<>>
  /\ FoundRun(Last) /\ ~Last.done
  /\ pc = "aw_rename"
  /\ Last.pushed /\ Last.backup = "made"
  /\ tmp[Last.file] # disk[Last.file]

\* C12: when the backup of a toggle or delete fails and the atomic write
\* succeeds, the mutation is applied, the operation returns success with
\* the warning, and the warning is in the user-visible status.
C12_BackupWarningShown ==
  (/\ pc = "idle" /\ hist # <<>>
   /\ Last.op \in {"toggle", "delete"} /\ Last.done
   /\ Last.backup = "failed" /\ Last.renamed)
  => /\ Last.ok
     /\ Last.post[Last.file] = FileOf(Last.lines)
     /\ Last.errMsg = "[warn] backup skipped: "
     /\ status.errMsg = "[warn] backup skipped: "

\* An external edit of a file, then a toggle or delete of an entry of that
\* file that was loaded before the edit.
EditedRun ==
  /\ TwoRuns
  /\ hist[1].op = "edit"
  /\ hist[2].op \in {"toggle", "delete"} /\ hist[2].ri > 0
  /\ hist[2].file = hist[1].file

\* `post' equals `cur' before line a and after line b.
SameOutside(cur, post, a, b) ==
  LET k == Len(cur) - b IN
    /\ Len(post) >= (a - 1) + k
    /\ SubSeq(post, 1, a - 1) = SubSeq(cur, 1, a - 1)
    /\ SubSeq(post, Len(post) - k + 1, Len(post)) = SubSeq(cur, b + 1, Len(cur))

\* C13: after an external edit between load and mutation, a toggle or delete
\* either changes only the directive the entry was loaded from (a line equal
\* to the entry's text; the block the entry was parsed from, at the place
\* the edit moved it to) or fails with NotFound and leaves the file as it is.
C13_EditedFileSameDirective ==
  EditedRun =>
    LET e    == hist[1]
        h    == hist[2]
        old  == e.pre[e.file].lines
        cur  == h.pre[h.file].lines
        post == h.post[h.file].lines
        mv   == Len(e.lines) - e.ri
    IN \/ ~h.ok /\ h.errMsg \in NotFoundMsgs /\ h.post = h.pre
       \/ /\ h.ok
          /\ IF h.repo.isDeb822
             THEN /\ OriginBlock(old, h.repo).s > e.ri
                  /\ SameOutside(cur, post, OriginBlock(old, h.repo).s + mv,
                                            OriginBlock(old, h.repo).e + mv)
             ELSE \E k \in 1..Len(cur) :
                     cur[k] = h.repo.display /\ SameOutside(cur, post, k, k)

\* C14: a toggle or delete of a one-line entry whose text equals no line of
\* the file fails with NotFound and has no effect: no file and no temporary
\* file changes, no snapshot is pushed and no backup is made.
C14_OneLineNotFound ==
  \A i \in 1..Len(hist) :
    LET h == hist[i] IN
    (/\ h.op \in {"toggle", "delete"} /\ h.ri > 0 /\ ~h.repo.isDeb822
     /\ FirstMatch(readAllLines(h.pre[h.file]), h.repo.display) = 0)
    => /\ h.done /\ ~h.ok
       /\ h.errMsg \in { "Line not found in file (changed externally?)",
                         "Line not found in file" }
       /\ h.post = h.pre /\ h.tmpPost = h.tmpPre
       /\ h.stackPost = h.stackPre /\ ~h.pushed
       /\ h.bkPost = h.bkPre /\ h.backup = "none"
       /\ (i = Len(hist) /\ pc = "idle") => status.isErr

\* C14 witness: the line of a loaded one-line entry was replaced by another
\* process, the file still has lines, and the toggle has run.
C14_Witness ==
  /\ EditedRun
  /\ hist[2].op = "toggle" /\ ~hist[2].repo.isDeb822
  /\ FirstMatch(readAllLines(hist[2].pre[hist[2].file]), hist[2].repo.display) = 0
  /\ hist[2].pre[hist[2].file].lines # <<>>

\* The index of the first character of l that is not whitespace.
RECURSIVE FirstNonWS(_, _)
FirstNonWS(l, i) ==
  IF i > Len(l) \/ ~IsWS(l[i]) THEN i ELSE FirstNonWS(l, i + 1)

\* The disabled line l with its one leading `#' and, if present, the one
\* space after it removed, and nothing else changed.
StripHash(l) ==
  LET i    == FirstNonWS(l, 1)
      from == IF i < Len(l) /\ l[i + 1] = " " THEN i + 2 ELSE i + 1
  IN SubSeq(l, 1, i - 1) \o SubSeq(l, from, Len(l))

\* C15: a successful toggle of a one-line entry replaces the matched line,
\* and only it: an active line by "# " followed by the line, a disabled line
\* by the line without its one leading `#' and the one space after it.
C15_ToggleLineFormat ==
  \A i \in 1..Len(hist) :
    LET h    == hist[i]
        pre  == h.pre[h.file].lines
        post == h.post[h.file].lines
        k    == FirstMatch(pre, h.repo.display)
    IN (h.op = "toggle" /\ h.done /\ h.ok /\ ~h.repo.isDeb822) =>
         /\ k > 0
         /\ post = [pre EXCEPT ![k] = IF h.repo.enabled THEN sHashSp \o pre[k]
                                      ELSE StripHash(pre[k])]

\* C16: an add whose line, trimmed, does not start with "deb" fails its
\* validation before any file I/O: no file and no temporary file is created
\* or changed, no snapshot is pushed and no backup is made.
C16_AddValidation ==
  \A i \in 1..Len(hist) :
    LET h == hist[i] IN
    (/\ h.op = "add" /\ Len(h.lines) = 1
     /\ ~StartsWith(trimStr(h.lines[1]), sDeb))
    => /\ h.done /\ ~h.ok
       /\ h.post = h.pre /\ h.tmpPost = h.tmpPre
       /\ h.stackPost = h.stackPre /\ ~h.pushed
       /\ h.bkPost = h.bkPre /\ h.backup = "none"
       /\ ~h.renamed

\* C16 witness: a line that is not empty and does not start with "deb" was
\* typed and refused, with a file on disk that an add could have changed.
C16_Witness ==
  /\ pc = "idle" /\ hist # <<>>
  /\ Last.op = "add" /\ Last.done
  /\ Last.lines = << <<" ", "x">> >>
  /\ status.text = "Invalid - must start with 'deb'." /\ status.isErr
  /\ disk[mainList].exists

\* The workers in flight: started, result not yet published and the running
\* flag not yet cleared (after line 827 only the release of the mutex and
\* the end of the thread remain).
InFlight ==
  { w \in Workers :
      workers[w].pc \in {"cache", "reach", "lock", "meta", "ready", "running"} }

\* The workers ever started.
StartedWorkers == { w \in Workers : workers[w].pc # "none" }

\* The foreground is inside the 'm' handler.
InRequest == ui.pc \in {"m_ready", "f_check", "f_ready", "f_running", "f_spawn"}

\* C17: at most one probe worker is in flight, and the running flag is set
\* while one is; a request goes on to start a worker only when none is in
\* flight, and a request made while the flag is set is dropped without
\* trace: every worker ever started answers a request that was not dropped.
C17_OneProbeInFlight ==
  /\ Cardinality(InFlight) <= 1
  /\ InFlight # {} => g_asyncMeta.running
  /\ ui.pc \in {"f_ready", "f_running", "f_spawn"} => InFlight = {}
  /\ Cardinality(StartedWorkers) + ui.dropped + (IF InRequest THEN 1 ELSE 0)
       = ui.asked

\* C17 witness: a request was dropped while a worker is resolving or
\* connecting, and the foreground is back in its frame.
C17_Witness ==
  /\ ui.dropped > 0
  /\ ~InRequest
  /\ \E w \in Workers : workers[w].pc = "reach"
  /\ Cardinality(StartedWorkers) = 1

\* No probe number occurs twice in the sequence.
NoRepeat(q) == \A i, j \in 1..Len(q) : q[i] = q[j] => i = j

\* C18: every probe writes its result into the mailbox once, not at all
\* before it holds the mutex and exactly once when it has ended; the
\* foreground copies each written result out at most once, and once it has
\* copied one out and cleared the flag, the flag is set only when the
\* mailbox holds a result not copied out before.
C18_MailboxOnce ==
  /\ \A w \in Workers :
       /\ workers[w].writes <= 1
       /\ workers[w].pc \in {"none", "cache", "reach", "lock", "meta"}
             => workers[w].writes = 0
       /\ workers[w].pc \in {"ready", "running", "unlock", "exited"}
             => workers[w].writes = 1
  /\ NoRepeat(ui.copied)
  /\ \A i \in 1..Len(ui.copied) :
       ui.copied[i] \in Workers /\ workers[ui.copied[i]].writes = 1
  /\ (g_asyncMeta.ready /\ ui.pc \notin {"d_clear"})
       => \A i \in 1..Len(ui.copied) : ui.copied[i] # g_asyncMeta.meta.id

\* C18 witness: the results of two probes were copied out, one after the
\* other, and the flag is clear.
C18_Witness ==
  /\ Len(ui.copied) = 2
  /\ ~g_asyncMeta.ready
  /\ ui.pc = "key"
  /\ ui.curMeta.id = ui.copied[2]

\* C19: the mailbox mutex is held only over the copy of the result and the
\* flag stores next to it: a worker that reads the cache file, resolves or
\* waits for the connection does not hold it, the foreground holds it only
\* from its copy to its release; the worker writes the mailbox value, and
\* the foreground reads it, with the mutex held.
C19_MutexOnlyForCopy ==
  /\ \A w \in Workers :
       /\ g_asyncMeta.mtx = w
             => workers[w].pc \in {"meta", "ready", "running", "unlock"}
       /\ workers[w].pc \in {"cache", "reach"} => g_asyncMeta.mtx # w
       /\ workers[w].pc = "meta" => g_asyncMeta.mtx = w
  /\ g_asyncMeta.mtx = Foreground => ui.pc \in {"d_copy", "d_clear", "d_unlock"}
  /\ ui.pc = "d_copy" => g_asyncMeta.mtx = Foreground

\* C19 witness: a worker that has written the mailbox still holds the mutex
\* while the foreground, which saw the flag, waits for it.
C19_Witness ==
  /\ ui.pc = "d_lock"
  /\ \E w \in Workers :
       /\ workers[w].pc = "running" /\ g_asyncMeta.mtx = w
       /\ g_asyncMeta.meta = workers[w].m

\* C20: checkReachable reports reachable only when the connection was
\* accepted within the timeout; when the name does not resolve in time or
\* the peer refuses, errors out or never answers, it reports unreachable.
C20_ReachableOnlyIfConnected ==
  \A w \in Workers :
    workers[w].net # NoNet =>
      (workers[w].m.reachable
         <=> (workers[w].net.dns = "ok" /\ workers[w].net.conn = "accepted"))

\* C21: for every entry loaded from a one-line file, enabled is false if
\* and only if the entry's displayText, trimmed, begins with "#".
C21_DisabledIffHash ==
  \A i \in 1..Len(g_repos) :
    LET e == g_repos[i]
        t == trimStr(e.display)
    IN ~e.isDeb822 => ((~e.enabled) <=> (t # <<>> /\ t[1] = "#"))

\* C21 witness: the list holds a disabled one-line entry whose raw line
\* begins with whitespace, not with the marker, next to an enabled one.
C21_Witness ==
  \E i, j \in 1..Len(g_repos) :
    /\ ~g_repos[i].isDeb822 /\ ~g_repos[i].enabled
    /\ IsWS(g_repos[i].display[1])
    /\ ~g_repos[j].isDeb822 /\ g_repos[j].enabled

\* The maximal runs of non-blank lines of ls as pairs <<first, last>>, in
\* file order.
Runs(ls) ==
  LET n           == Len(ls)
      NonBlank(k) == trimStr(ls[k]) # <<>>
      S == { r \in (1..n) \X (1..n) :
               /\ r[1] <= r[2]
               /\ \A k \in r[1]..r[2] : NonBlank(k)
               /\ r[1] = 1 \/ ~NonBlank(r[1] - 1)
               /\ r[2] = n \/ ~NonBlank(r[2] + 1) }
  IN [k \in 1..Cardinality(S) |->
        CHOOSE r \in S : Cardinality({q \in S : q[1] < r[1]}) = k - 1]

\* The lines of the block that carry the field `key', comment lines aside.
FieldLines(blines, key) ==
  { k \in 1..Len(blines) : StartsWith(trimStr(blines[k]), key) }

\* The value of the field `key' of the block: the trimmed text behind the
\* key on the last line that carries it, <<>> when no line does.
FieldValue(blines, key) ==
  LET F == FieldLines(blines, key) IN
  IF F = {} THEN <<>>
  ELSE LET k == CHOOSE x \in F : \A y \in F : y <= x
       IN trimStr(Substr(trimStr(blines[k]), Len(key)))

\* The block is rejected: no "deb" in its Types value, or no URI, or no suite.
BlockRejected(blines) ==
  \/ ~Contains(FieldValue(blines, sTypes), sDeb)
  \/ splitWords(FieldValue(blines, sURIs)) = <<>>
  \/ splitWords(FieldValue(blines, sSuites)) = <<>>

\* The number of (uri, suite) pairs of a block that is not rejected.
PairCount(blines) ==
  IF BlockRejected(blines) THEN 0
  ELSE Len(splitWords(FieldValue(blines, sURIs)))
       * Len(splitWords(FieldValue(blines, sSuites)))

\* The enabled flag of a block: true unless it has an Enabled: value other
\* than yes, Yes, YES.
BlockEnabled(blines) ==
  \/ FieldLines(blines, sEnabled) = {}
  \/ FieldValue(blines, sEnabled) \in {sYes, sYesCap, sYesUp}

IsParagraphEntry(e) == e.isDeb822

\* The paragraph entries of the list, in list order.
ParagraphEntries == SelectSeq(g_repos, IsParagraphEntry)

\* C22: a block whose Types value lacks "deb" or whose URIs or Suites list
\* is empty yields no entry; every other block yields exactly one entry per
\* (uri, suite) pair of the cross product of its URIs and Suites, all of
\* them with the same blockIndex, the raw Components string of the block
\* and the enabled flag of the block.
C22_BlockEntries ==
  LET ls == readAllLines(disk[srcFile])
      R  == Runs(ls)
      B(k) == SubSeq(ls, R[k][1], R[k][2])
      es == ParagraphEntries
      RECURSIVE Before(_)
      Before(k) == IF k = 1 THEN 0 ELSE Before(k - 1) + PairCount(B(k - 1))
  IN /\ Len(es) = Before(Len(R) + 1)
     /\ \A k \in 1..Len(R) :
          LET uris   == splitWords(FieldValue(B(k), sURIs))
              suites == splitWords(FieldValue(B(k), sSuites))
              seg    == SubSeq(es, Before(k) + 1, Before(k) + PairCount(B(k)))
          IN /\ BlockRejected(B(k)) => seg = <<>>
             /\ ~BlockRejected(B(k)) =>
                  \A i \in 1..Len(uris), j \in 1..Len(suites) :
                    Cardinality({x \in 1..Len(seg) :
                                   seg[x].uri = uris[i] /\ seg[x].suite = suites[j]})
                    = Cardinality({p \in (1..Len(uris)) \X (1..Len(suites)) :
                                     uris[p[1]] = uris[i] /\ suites[p[2]] = suites[j]})
             /\ \A x \in 1..Len(seg) :
                  /\ seg[x].blockIndex = seg[1].blockIndex
                  /\ seg[x].components = FieldValue(B(k), sComponents)
                  /\ seg[x].enabled = BlockEnabled(B(k))

\* C22 witness: a block of two URIs and two suites with a Components line
\* and "Enabled: no" is loaded as four disabled entries.
C22_Witness ==
  /\ Len(ParagraphEntries) = 4
  /\ Len(Runs(readAllLines(disk[srcFile]))) = 1
  /\ \A x \in 1..4 :
       /\ ~ParagraphEntries[x].enabled
       /\ ParagraphEntries[x].components = <<"m", " ", " ", "n">>
  /\ ParagraphEntries[1].uri # ParagraphEntries[4].uri
  /\ ParagraphEntries[1].suite # ParagraphEntries[4].suite

\* Two characters that are equal up to the case of a letter.
SameLetter(a, b) ==
  \/ a = b
  \/ Ord[a] >= 65 /\ Ord[a] <= 90 /\ Ord[b] = Ord[a] + 32
  \/ Ord[b] >= 65 /\ Ord[b] <= 90 /\ Ord[a] = Ord[b] + 32

\* The text contains the query as a case-insensitive substring; every text
\* contains the empty query.
MatchesQuery(text, q) ==
  \E i \in 0..(Len(text) - Len(q)) :
    \A k \in 1..Len(q) : SameLetter(text[i + k], q[k])

\* C23: after any sequence of loads, query edits and sort-mode changes the
\* visible list holds exactly the indices of the loaded entries whose
\* displayText contains the query as a case-insensitive substring (all of
\* them when the query is empty), each index once.
C23_VisibleIsFiltered ==
  /\ {g_filtered[i] : i \in 1..Len(g_filtered)}
       = {i \in 1..Len(g_repos) : MatchesQuery(g_repos[i].display, g_filterStr)}
  /\ \A i, j \in 1..Len(g_filtered) : i # j => g_filtered[i] # g_filtered[j]

\* C23 witness: a handler has reloaded the list under the query "U" kept
\* from a search, the sort mode has been changed, and the visible list is a
\* proper part of the list holding an entry that matches only by case.
C23_Witness ==
  /\ g_filterStr = <<"U">>
  /\ ~g_searchMode
  /\ sortMode = 2
  /\ hist # <<>> /\ Last.done /\ Last.ok
  /\ Len(g_filtered) > 0 /\ Len(g_filtered) < Len(g_repos)
  /\ \E i \in 1..Len(g_filtered) :
       ~Contains(g_repos[g_filtered[i]].display, <<"U">>)

\* x is lexicographically less than y, characters compared by code.
LexLess(x, y) ==
  \E n \in 0..Len(x) :
    /\ n <= Len(y)
    /\ \A k \in 1..n : x[k] = y[k]
    /\ \/ n = Len(x) /\ n < Len(y)
       \/ n < Len(x) /\ n < Len(y) /\ Ord[x[n + 1]] < Ord[y[n + 1]]

\* The text with its capital letters replaced by small ones.
FoldCase(s) ==
  [i \in 1..Len(s) |->
     IF Ord[s[i]] >= 65 /\ Ord[s[i]] <= 90
     THEN CHOOSE c \in DOMAIN Ord : Ord[c] = Ord[s[i]] + 32
     ELSE s[i]]

\* Entry a comes before entry b under the key of the sort mode: file order
\* (source path, then displayText), status order (enabled before disabled,
\* then displayText), alpha order (displayText without regard to case).
KeyBefore(mode, a, b) ==
  IF mode = 1
  THEN \/ a.enabled /\ ~b.enabled
       \/ a.enabled = b.enabled /\ LexLess(a.display, b.display)
  ELSE IF mode = 2
  THEN LexLess(FoldCase(a.display), FoldCase(b.display))
  ELSE \/ LexLess(PathChars(a.file), PathChars(b.file))
       \/ a.file = b.file /\ LexLess(a.display, b.display)

\* C24: the visible list is ordered by the key of the selected mode, and two
\* entries that compare equal under that key are in the order they have in
\* the loaded entry list.
C24_VisibleIsSorted ==
  \A i, j \in 1..Len(g_filtered) :
    i < j =>
      LET a == g_repos[g_filtered[i]]
          b == g_repos[g_filtered[j]]
      IN /\ ~KeyBefore(sortMode, b, a)
         /\ ~KeyBefore(sortMode, a, b) => g_filtered[i] < g_filtered[j]

\* C24 witness: a search is in effect, in alpha order the visible list is
\* not in list order, and it holds two different texts that compare equal,
\* next to each other.
C24_Witness ==
  /\ sortMode = 2
  /\ g_filterStr # <<>>
  /\ \E i \in 1..(Len(g_filtered) - 1) : g_filtered[i] > g_filtered[i + 1]
  /\ \E i \in 1..(Len(g_filtered) - 1) :
       LET a == g_repos[g_filtered[i]]
           b == g_repos[g_filtered[i + 1]]
       IN a.display # b.display /\ FoldCase(a.display) = FoldCase(b.display)

\* C25: no operation ends the process: whatever the managed files and the
\* import file hold, load, toggle, delete, add, undo, import and export
\* return with success or with an error shown as status.
C25_NoCrash == pc # "crashed"

\* The part of an import line behind "deb ".
RestOfDeb(t) == SubSeq(t, 5, Len(t))

\* The `deb ...' lines of an import file whose part behind "deb " is not
\* found, letter case aside, in the trimmed displayText of any entry.
RECURSIVE NewDebLines(_, _)
NewDebLines(ls, repos) ==
  IF ls = <<>> THEN <<>>
  ELSE LET t == trimStr(Head(ls))
           isDeb == Len(t) >= 3 /\ SubSeq(t, 1, 3) = <<"d", "e", "b">>
           known == \E i \in 1..Len(repos) :
                      MatchesQuery(trimStr(repos[i].display), RestOfDeb(t))
       IN (IF isDeb /\ ~known THEN <<t>> ELSE <<>>)
          \o NewDebLines(Tail(ls), repos)

\* C26: an import whose two files open appends to the primary file exactly
\* the new `deb ...' lines of the import file, reports their number, and
\* reports "No new repos found to import." without an error when there are
\* none.
C26_ImportAppendsNew ==
  [][ ( /\ pc = "idle"
        /\ fuel' < fuel
        /\ hist'[Len(hist')].op = "import"
        /\ ext.exists
        /\ ~(hist'[Len(hist')].done /\ ~hist'[Len(hist')].ok) )
      => LET new == NewDebLines(readAllLines(ext), g_repos)
             run == hist'[Len(hist')]
         IN /\ run.done /\ run.ok
            /\ disk' = [disk EXCEPT ![mainList] = AppendLines(Opened(@), new)]
            /\ run.ri = Len(new)
            /\ ~status'.isErr
            /\ status'.text = IF new = <<>>
                              THEN "No new repos found to import."
                              ELSE "repo(s) imported." ]_vars

\* C27: when toggle, add, delete, undo or import has run on a managed file
\* and the next key is awaited, the entry list is the parse of the files as
\* they are on disk, whether the action succeeded or failed.
C27_ListIsParseOfDisk ==
  ( /\ pc = "idle"
    /\ hist # <<>>
    /\ Last.done
    /\ Last.op \in {"toggle", "add", "delete", "undo", "import"}
    /\ Last.file \in Files )
  => g_repos = loadRepos(disk, useDeb822)

\* C28: without root, toggle, add, delete, undo and import leave every
\* managed file and the undo stack as they were.
C28_ReadOnlyChangesNothing ==
  ( /\ g_readOnly
    /\ hist # <<>>
    /\ Last.op \in {"toggle", "add", "delete", "undo", "import"} )
  => /\ disk = Last.pre
     /\ g_undoStack = Last.stackPre

\* The run of toggle or delete on a paragraph entry was refused because of
\* its block index.
IndexRefused(h) ==
  /\ h.done
  /\ ~h.ok
  /\ h.errMsg \in {"Block index out of range (file changed externally?)",
                   "Block index out of range"}

\* C29: toggle and delete of a paragraph entry number the maximal runs of
\* non-blank lines of the file 0, 1, 2, ... in file order.  Both are refused
\* for the block index, with the file and the undo stack as they were,
\* exactly when blockIndex is negative or not less than the number of runs;
\* otherwise the lines they write differ from the lines read only inside
\* run number blockIndex (delete also takes one blank line behind it).
C29_SameBlockNumbering ==
  \A n \in 1..Len(hist) :
    LET h == hist[n] IN
    (h.op \in {"toggle", "delete"} /\ h.file \in Files /\ h.repo.isDeb822)
    => LET ls   == readAllLines(h.pre[h.file])
           runs == Runs(ls)
           k    == h.repo.blockIndex
       IN /\ IndexRefused(h) <=> (k < 0 \/ k >= Len(runs))
          /\ IndexRefused(h) =>
               /\ h.post = h.pre
               /\ h.stackPost = h.stackPre
               /\ ~h.pushed
          /\ ~IndexRefused(h) =>
               LET s    == runs[k + 1][1]
                   e    == runs[k + 1][2]
                   rest == Len(ls) - e
                   new  == h.lines
               IN IF h.op = "delete"
                  THEN LET e2 == IF e < Len(ls) /\ trimStr(ls[e + 1]) = <<>>
                                 THEN e + 1 ELSE e
                       IN new = SubSeq(ls, 1, s - 1) \o SubSeq(ls, e2 + 1, Len(ls))
                  ELSE /\ Len(new) \in {Len(ls), Len(ls) + 1}
                       /\ SubSeq(new, 1, s - 1) = SubSeq(ls, 1, s - 1)
                       /\ SubSeq(new, Len(new) - rest + 1, Len(new))
                            = SubSeq(ls, e + 1, Len(ls))

\* C29 witness: after a toggle or delete of a block behind the first one, a
\* toggle or delete is refused for an entry whose block index is the number
\* of runs of a file that still holds a run.
C29_Witness ==
  /\ Len(hist) = 2
  /\ hist[1].op \in {"toggle", "delete", "edit"}
  /\ Last.op \in {"toggle", "delete"}
  /\ Last.file \in Files
  /\ Last.repo.isDeb822
  /\ IndexRefused(Last)
  /\ Last.repo.blockIndex = Len(Runs(readAllLines(Last.pre[Last.file])))
  /\ Last.repo.blockIndex > 0

\* C30: toggle and delete of a one-line entry act on the first line equal
\* to the entry's displayText: toggle replaces that line, delete removes it,
\* and every other line, the later equal lines among them, keeps its text
\* and its place in the order; the lines written are the lines of the file
\* when the handler succeeds.
C30_FirstMatchOnly ==
  \A n \in 1..Len(hist) :
    LET h == hist[n] IN
    ( /\ h.op \in {"toggle", "delete"}
      /\ h.file \in Files
      /\ ~h.repo.isDeb822
      /\ ~(h.done /\ ~h.ok /\ ~h.pushed) )
    => LET ls    == readAllLines(h.pre[h.file])
           M     == {k \in 1..Len(ls) : ls[k] = h.repo.display}
           first == CHOOSE k \in M : \A j \in M : k <= j
           new   == h.lines
       IN /\ M # {}
          /\ IF h.op = "delete"
             THEN new = [k \in 1..(Len(ls) - 1) |->
                           IF k < first THEN ls[k] ELSE ls[k + 1]]
             ELSE /\ Len(new) = Len(ls)
                  /\ new[first] # ls[first]
                  /\ \A k \in 1..Len(ls) : k # first => new[k] = ls[k]
          /\ (h.done /\ h.ok) => readAllLines(h.post[h.file]) = new

\* C30 witness: a toggle or delete of the second of two entries with the
\* same displayText has succeeded on a file that held two lines equal to it;
\* the later line is still in the file.
C30_Witness ==
  /\ hist # <<>>
  /\ Last.op \in {"toggle", "delete"}
  /\ Last.file \in Files
  /\ ~Last.repo.isDeb822
  /\ Last.done /\ Last.ok
  /\ Last.ri >= 2
  /\ LET ls  == readAllLines(Last.pre[Last.file])
         out == readAllLines(Last.post[Last.file])
     IN /\ Cardinality({k \in 1..Len(ls) : ls[k] = Last.repo.display}) >= 2
        /\ \E k \in 2..Len(out) : out[k] = Last.repo.display

\* C31: when a toggle has succeeded and the list has been reloaded, the
\* entry at the place of the toggled one carries the opposite enabled flag.
C31_ToggleFlipsFlag ==
  ( /\ pc = "idle"
    /\ hist # <<>>
    /\ Last.op = "toggle"
    /\ Last.done /\ Last.ok )
  => /\ Last.ri <= Len(g_repos)
     /\ g_repos[Last.ri].enabled = ~Last.repo.enabled

\* C32: an undo that follows a successful toggle, add or delete succeeds,
\* leaves every file with the content it had before that mutation and the
\* stack as it was before it, so that k undos after k mutations unwind them
\* in reverse order down to the original files and the empty stack; an undo
\* that follows the undo that emptied the stack fails with "Nothing to undo.".
C32_UndoUnwinds ==
  /\ ( /\ TwoRuns
       /\ hist[1].op \in Mutations /\ hist[1].ok
       /\ Len(hist[1].stackPre) < k_maxUndo
       /\ hist[2].op = "undo" )
     => /\ hist[2].ok
        /\ hist[2].post = hist[1].pre
        /\ hist[2].stackPost = hist[1].stackPre
  /\ ( /\ TwoRuns
       /\ hist[1].op = "undo" /\ hist[1].ok /\ hist[1].stackPost = <<>>
       /\ hist[2].op = "undo" )
     => /\ ~hist[2].ok
        /\ hist[2].errMsg = "Nothing to undo."
        /\ hist[2].post = hist[2].pre

\* The files have the same lines.
SameLines(d, e) == \A f \in Files : readAllLines(d[f]) = readAllLines(e[f])

\* C33: every toggle, add, delete and import that has changed a managed
\* file has pushed exactly one snapshot, the lines of that file before the
\* change; an undo that follows it restores those lines, so it reverts the
\* latest change and none before it.
C33_UndoRevertsLatestChange ==
  /\ \A n \in 1..Len(hist) :
       LET h == hist[n] IN
       ( /\ h.op \in {"toggle", "add", "delete", "import"}
         /\ h.done
         /\ h.post # h.pre )
       => h.stackPost = Append(h.stackPre,
                               [file |-> h.file,
                                lines |-> readAllLines(h.pre[h.file])])
  /\ ( /\ TwoRuns
       /\ hist[1].op \in {"toggle", "add", "delete", "import"}
       /\ hist[1].post # hist[1].pre
       /\ hist[2].op = "undo" /\ hist[2].ok )
     => SameLines(hist[2].post, hist[1].pre)

\* C34: a toggle, delete or add that has failed leaves the undo stack as it
\* was before the operation.
C34_FailureKeepsStack ==
  \A n \in 1..Len(hist) :
    LET h == hist[n] IN
    (h.op \in Mutations /\ h.done /\ ~h.ok) => h.stackPost = h.stackPre

\* The undo of the record found a snapshot and its atomic write failed.
UndoWriteFailed(h) ==
  h.op = "undo" /\ h.done /\ ~h.ok /\ h.stackPre # <<>>

\* C35: when the atomic write inside undo() fails, the error is reported,
\* every managed file is as before, and the stack is as before with the
\* snapshot the undo tried to restore still on top.
C35_FailedUndoKeepsSnapshot ==
  /\ \A n \in 1..Len(hist) :
       LET h == hist[n] IN
       UndoWriteFailed(h) =>
         /\ h.errMsg # "" /\ h.errMsg # "Nothing to undo."
         /\ h.post = h.pre
         /\ h.stackPost = h.stackPre
         /\ h.stackPost[Len(h.stackPost)] = [file |-> h.file, lines |-> h.lines]
  /\ (hist # <<>> /\ pc = "idle" /\ UndoWriteFailed(Last)) =>
       /\ status.isErr
       /\ status.errMsg = Last.errMsg
       /\ g_undoStack = Last.stackPre

\* C35 witness: an undo has failed in its atomic write after a successful
\* mutation, and the snapshot on top holds lines other than the file's.
C35_Witness ==
  /\ TwoRuns
  /\ pc = "idle"
  /\ hist[1].op \in Mutations /\ hist[1].ok
  /\ UndoWriteFailed(Last)
  /\ g_undoStack # <<>>
  /\ g_undoStack[Len(g_undoStack)].lines
       # readAllLines(disk[g_undoStack[Len(g_undoStack)].file])

\* C36: a probe result the foreground has copied and shows was computed for
\* the entry that is selected: whenever g_metaShown is set, g_curMeta is
\* the result of a worker whose copy of the entry is the entry under the
\* cursor, so a result for one entry is never shown under another.
C36_ResultIsForSelected ==
  ui.metaShown =>
    /\ ui.curMeta.id \in Workers
    /\ workers[ui.curMeta.id].r = g_filtered[ui.sel]

\* C37: after checkReachable has returned on a resolution timeout, the
\* resolver thread it left behind never reads or writes a local of that
\* call (done, mtx, cv, gai_res, gai_ret, host, portStr, hints).
C37_ResolverLeavesFrameAlone ==
  \A w \in Workers :
    workers[w].net.dns = "timeout" => ~workers[w].late

\* C38: every probe that is started finishes.  Under fair scheduling a
\* worker that has started reaches the point where it has stored its
\* result in the mailbox and cleared the running flag, whatever the cache,
\* the resolution and the connection give; and whenever the running flag
\* is set it is cleared again, so that a later request is accepted.
C38_ProbeFinishes ==
  /\ \A w \in Workers :
       (workers[w].pc = "cache")
          ~> ( /\ workers[w].pc = "unlock"
               /\ ~g_asyncMeta.running
               /\ g_asyncMeta.meta = workers[w].m )
  /\ g_asyncMeta.running ~> ~g_asyncMeta.running

\* C39: export followed at once by the import of the exported file adds no
\* line to the primary file and reports "No new repos found to import.":
\* every exported entry is already in the list.
C39_ExportThenImport ==
  ( /\ Len(hist) = 2
    /\ hist[1].op = "export" /\ hist[1].done /\ hist[1].ok
    /\ hist[2].op = "import" /\ hist[2].done /\ hist[2].ok )
  => /\ readAllLines(hist[2].post[mainList]) = readAllLines(hist[2].pre[mainList])
     /\ hist[2].ri = 0
     /\ hist[2].errMsg = "No new repos found to import."

=============================================================================
